---- MODULE Spec2Model ----
(***************************************************************************)
(* The YARA language server (yarals): one client connection served by      *)
(* YaraLanguageServer.handle_client, the request scheduler execute_method  *)
(* and the feature / event handlers it routes to.                          *)
(*                                                                         *)
(* handle_client reads one message, routes it and only then reads the next *)
(* one (execute_method is awaited inline), so everything a message causes  *)
(* is written between two reads.  `sent' and `logged' hold what was        *)
(* written to the writer / the log since the message in `cur' was read.    *)
(*                                                                         *)
(* Spec is the connection loop.  SpecWire is the wire codec (write_data,   *)
(* read_request) on one transport with several writing tasks.              *)
(* SpecFunctions applies single functions (_get_document, initialize,      *)
(* write_data, provide_rename, provide_code_completion, convert_exception, *)
(* event_cancel) to every argument within the bounds.  SpecSymbols applies *)
(* the definition, references and hover providers to every document and    *)
(* cursor position within the bounds.  SpecClients is one server with     *)
(* several connections: the locals of each handle_client task, the         *)
(* attributes of the server object they share, and the exception handler   *)
(* of the event loop.                                                      *)
(***************************************************************************)
EXTENDS Integers, Sequences, FiniteSets, TLC

\* ------------------------------------------------------------------ bounds
\* the client numbers its requests 0..MaxId (and may send the negative id -1)
MaxId == 1
\* the messages written to one transport, and the characters of their text
MaxFrames == 2
MaxLen == 2
\* the Locations provide_reference returns for one request
MaxRefs == 2
\* the lines of a document and the column of the cursor
MaxLines == 5
MaxCol == 9
\* the names of the dotted path typed before a completion request
MaxDepth == 3
\* the arguments an exception is constructed with
MaxArgs == 2

\* --------------------------------------------------------------- constants
\* lsp.MessageType
ERROR == 1
WARNING == 2
INFO == 3

\* lsp.CompletionItemKind
METHOD == 1
FUNCTION == 2
INTERFACE == 7
CLASS == 7
PROPERTY == 9
ENUM == 12

\* lsp.JsonRPCError
METHOD_NOT_FOUND == -32601
INVALID_PARAMS == -32602
INTERNAL_ERROR == -32603
SERVER_ERROR_END == -32000
UNKNOWN_ERROR_CODE == -32001

\* JSON-RPC ids: an integer (msg_id: int), or no "id" key
IntId(n) == [t |-> "int", v |-> n]
NoId == [t |-> "none", v |-> 0]

\* int(msg_id) >= 0 of execute_method
IntNonNegative(id) == id.t = "int" /\ id.v >= 0

\* self.route(...) of YaraLanguageServer.__init__
request_handlers ==
    { "initialize", "shutdown", "workspace/executeCommand",
      "textDocument/completion", "textDocument/definition",
      "textDocument/formatting", "textDocument/documentHighlight",
      "textDocument/hover", "textDocument/references", "textDocument/rename" }

event_handlers ==
    { "textDocument/didChange", "textDocument/didClose",
      "textDocument/didSave", "exit", "$/cancelRequest" }

\* the feature methods of the language (all routes but the two lifecycle ones)
FeatureMethods == request_handlers \ {"initialize", "shutdown"}

\* ---------------------------------------------------------------- values
\* handler results: None, [], a non-empty value, the initialize capabilities,
\* the {"result": None[, "error": ...]} dictionary of execute_command
Null == [tag |-> "null", v |-> {}]
EmptyList == [tag |-> "list", v |-> {}]
EmptyDict == [tag |-> "dict", v |-> {}]
Value(x) == [tag |-> "value", v |-> {x}]
Caps(S) == [tag |-> "caps", v |-> S]
CmdResult(S) == [tag |-> "cmd", v |-> S]

\* send_response / send_notification: the JSON-RPC message written
Response(id, r) ==
    [type |-> "response", id |-> id, method |-> "", result |-> r, mtype |-> 0, uri |-> ""]
Notification(method, mtype, uri) ==
    [type |-> "notification", id |-> NoId, method |-> method, result |-> Null,
     mtype |-> mtype, uri |-> uri]

LogEntry(level, what, id) == [level |-> level, what |-> what, id |-> id]

\* ------------------------------------------------------- client messages
\* the parameters a message may carry; "" stands for an absent key
NoParams ==
    [uri |-> "", text |-> "", root |-> "", dyn |-> {}, fmt |-> "", cmd |-> "",
     cos |-> FALSE, ref |-> NoId]

Request(id, method, p) == [hasid |-> TRUE, id |-> id, method |-> method, p |-> p]
Notify(method, p) == [hasid |-> FALSE, id |-> NoId, method |-> method, p |-> p]

AllClientCaps ==
    { "completion", "definition", "hover", "executeCommand", "formatting",
      "references", "rename", "synchronization" }

\* "u1" is a rule file the client has open, "u0" names a file that does not exist
URIs == {"u1"}
MissingURIs == {"u0"}
\* the full text a didChange carries; "" is a document emptied by the user
Texts == {"t1"}
EmptiedTexts == {""}
\* rule files under a workspace root (workspace.glob("**/*.yara"), "**/*.yar")
WorkspaceFiles(root) == IF root = "A" THEN {"w1"} ELSE {}

InitializeParams ==
    { [NoParams EXCEPT !.root = "A", !.dyn = AllClientCaps, !.fmt = "plaintext"],
      NoParams }

CommandParams ==
    { [NoParams EXCEPT !.cmd = c] : c \in {"yara.CompileRule", "yara.CompileAllRules", "other"} }

DocParams == { [NoParams EXCEPT !.uri = u] : u \in URIs \cup MissingURIs }

GoodIds == { IntId(n) : n \in 0..MaxId }
BadIds == { IntId(-1) }

RequestBodies ==
    ({"initialize"} \X InitializeParams)
    \cup ({"shutdown"} \X {NoParams})
    \cup ({"workspace/executeCommand"} \X CommandParams)
    \cup ((FeatureMethods \ {"workspace/executeCommand"}) \X DocParams)
    \cup ({"foo/bar"} \X {NoParams})

ClientRequests ==
    { Request(id, b[1], b[2]) : id \in GoodIds, b \in RequestBodies }
    \cup { Request(id, b[1], b[2]) : id \in BadIds,
           b \in ({"foo/bar"} \X {NoParams}) \cup ({"textDocument/hover"} \X DocParams) }

\* params["id"] of $/cancelRequest: a request id, a string that is no number,
\* or no id at all
CancelIds == { IntId(n) : n \in 0..MaxId } \cup { [t |-> "str", v |-> 0], NoId }

ClientNotifications ==
    { Notify("initialized", NoParams), Notify("exit", NoParams), Notify("foo/note", NoParams),
      Notify("workspace/didChangeConfiguration", [NoParams EXCEPT !.cos = TRUE]) }
    \cup { Notify("textDocument/didChange", [NoParams EXCEPT !.uri = u, !.text = t]) :
             u \in URIs, t \in Texts \cup EmptiedTexts }
    \cup { Notify(m, [NoParams EXCEPT !.uri = u]) :
             m \in {"textDocument/didClose", "textDocument/didSave"}, u \in URIs }
    \cup { Notify("$/cancelRequest", [NoParams EXCEPT !.ref = id]) : id \in CancelIds }

NoMessage == Notify("", NoParams)

\* ------------------------------------------------------------------ state
VARIABLES
    pc,            \* where handle_client is: idle, read, exec, closed, exited, dead
    has_started,   \* handle_client's local has_started
    dirty_files,   \* handle_client's local dirty_files: uri -> text
    config,        \* handle_client's local config: compile_on_save
    workspace,     \* self.workspace ("False" or the root path)
    hover_langs,   \* self.hover_langs
    num_clients,   \* self.num_clients
    writer_closed, \* remove_client has closed the connection's writer
    exc,           \* the exception handle_client ended with ("" for none)
    has_yara,      \* _is_module_installed("yara")
    has_plyara,    \* _is_module_installed("plyara")
    cur,           \* the message read last
    started_at,    \* has_started when cur was read
    outcome,       \* how cur's handler ended: none, return, raise, timeout, unknown
    returned,      \* the value cur's handler returned (Null when it did not return)
    own,           \* how many of `sent' cur's handler wrote itself
    sent,          \* messages written to the writer since cur was read
    logged,        \* log records written since cur was read
    init_seen,     \* history: an initialize request was handled on this connection
    shutdown_seen, \* history: a shutdown request was handled after initialized
    raised,        \* the exception cur's handler raised ("" for none)
    warned,        \* history: a warning that yara is not installed was sent
    running_tasks, \* self.running_tasks: msg_id -> the state of the task
    task,          \* the task wait_for runs cur's handler in: none, running, done, cancelled
    call,          \* one call of a function taken on its own: arguments and result
    wire,          \* a writer's transport: bytes written, tasks writing, reader
    clients        \* the connections of one server: each handle_client's locals

vars ==
    << pc, has_started, dirty_files, config, workspace, hover_langs, num_clients,
       writer_closed, exc, has_yara, has_plyara, cur, started_at, outcome, returned,
       own, sent, logged, init_seen, shutdown_seen, raised, warned, running_tasks, task,
       call, wire, clients >>

server_vars ==
    << pc, has_started, dirty_files, config, workspace, hover_langs, num_clients,
       writer_closed, exc, has_yara, has_plyara, cur, started_at, outcome, returned,
       own, sent, logged, init_seen, shutdown_seen, raised, warned, running_tasks, task >>

\* no function is being looked at on its own
NoCall == [fn |-> "", done |-> FALSE]

\* the tasks that write to one StreamWriter
Writers == {"w1", "w2"}

\* a transport nothing was written to: `out' is every byte written so far,
\* `pos' how many of them read_request has consumed, `task' where each writing
\* task is, `written' / `decoded' the messages written and the requests read
NoWire ==
    [out |-> << >>, pos |-> 0, task |-> [w \in Writers |-> [at |-> "idle", rest |-> << >>]],
     written |-> << >>, decoded |-> << >>, failed |-> FALSE]

\* hover_langs = [lsp.MarkupKind.Markdown, lsp.MarkupKind.Plaintext]
DefaultHoverLangs == "markdown,plaintext"

\* dirty_files = {}
NoDirtyFiles == [u \in {} |-> ""]

\* self.running_tasks = {}
NoTasks == [id \in {} |-> ""]

\* the connections one server accepts (asyncio.start_server calls handle_client
\* of the same YaraLanguageServer for each)
Clients == {"A", "B"}

\* a connection not yet accepted; `at' is where its handle_client task is:
\* none, running, closed (returned), raised (ended with the exception `raise'
\* the loop has not reported yet), reported, cancelled
NoClient ==
    [at |-> "none", has_started |-> FALSE, dirty_files |-> NoDirtyFiles, config |-> FALSE,
     writer_closed |-> FALSE, sent |-> << >>, logged |-> << >>, raise |-> "",
     running_tasks |-> NoTasks]

InitServer ==
    /\ pc = "idle"
    /\ has_started = FALSE
    /\ dirty_files = NoDirtyFiles
    /\ config = FALSE
    /\ workspace = "False"
    /\ hover_langs = DefaultHoverLangs
    /\ num_clients = 0
    /\ writer_closed = FALSE
    /\ exc = ""
    /\ cur = NoMessage
    /\ started_at = FALSE
    /\ outcome = "none"
    /\ returned = Null
    /\ own = 0
    /\ sent = << >>
    /\ logged = << >>
    /\ init_seen = FALSE
    /\ shutdown_seen = FALSE
    /\ raised = ""
    /\ warned = FALSE
    /\ running_tasks = NoTasks
    /\ task = "none"
    /\ clients = [c \in Clients |-> NoClient]

\* the server constructed; the two optional modules are installed or not
Init ==
    /\ InitServer
    /\ has_yara \in BOOLEAN
    /\ has_plyara \in BOOLEAN
    /\ call = NoCall
    /\ wire = NoWire

\* the locals of handle_client an event handler may touch, and what it wrote
Locals ==
    [has_started |-> has_started, dirty_files |-> dirty_files, config |-> config,
     writer_closed |-> writer_closed, sent |-> << >>, logged |-> << >>, raise |-> "",
     running_tasks |-> running_tasks]

\* the head of the loop: once num_clients has dropped to 0 the dirty files are
\* cleared and the writer is closed (remove_client) before the next read
loop_head(l) ==
    IF num_clients <= 0
    THEN [l EXCEPT !.dirty_files = NoDirtyFiles, !.writer_closed = TRUE]
    ELSE l

\* del dirty_files[file_uri]
Without(d, u) == [x \in (DOMAIN d) \ {u} |-> d[x]]
\* dirty_files[file_uri] = change
With(d, u, t) == [x \in (DOMAIN d) \cup {u} |-> IF x = u THEN t ELSE d[x]]

\* ------------------------------------------------------- the document store
\* helpers.parse_uri: the path a file URI names ("" when it names none)
parse_uri(file_uri) ==
    CASE file_uri = "u1" -> "p1"
      [] file_uri = "u0" -> "p0"
      [] OTHER -> ""

\* the files on disk while the server runs: path -> contents; "u0" names no file
FileSystem == [file_path \in {"p1"} |-> "d1"]

\* the document read from disk regardless of the dirty files
_get_document_DiskFirst(file_uri, dirty, files) ==
    LET file_path == parse_uri(file_uri)
    IN  IF file_path \in DOMAIN files
        THEN [kind |-> "return", text |-> files[file_path], opened |-> {file_path}]
        ELSE IF file_uri \in DOMAIN dirty
        THEN [kind |-> "return", text |-> dirty[file_uri], opened |-> {file_path}]
        ELSE [kind |-> "raise", text |-> "FileNotFoundError", opened |-> {file_path}]

\* YaraLanguageServer._get_document: the text of a document, from the dirty
\* files or else from disk; `opened' is the set of paths it opened
_get_document(file_uri, dirty, files) ==
    IF file_uri \in DOMAIN dirty
    THEN [kind |-> "return", text |-> dirty[file_uri], opened |-> {}]
    ELSE LET file_path == parse_uri(file_uri)
         IN  IF file_path \in DOMAIN files
             THEN [kind |-> "return", text |-> files[file_path], opened |-> {file_path}]
             ELSE [kind |-> "raise", text |-> "FileNotFoundError", opened |-> {file_path}]

\* --------------------------------------------------------- event handlers
\* event_did_change without the has_started check
event_did_change_Unguarded(l, m) ==
    IF m.p.uri # "" /\ m.p.text # ""
    THEN [l EXCEPT !.dirty_files = With(l.dirty_files, m.p.uri, m.p.text)]
    ELSE l

\* LanguageServer.event_did_change: full text is submitted with each change
event_did_change(l, m) ==
    IF l.has_started /\ m.p.uri # "" /\ m.p.text # ""
    THEN [l EXCEPT !.dirty_files = With(l.dirty_files, m.p.uri, m.p.text)]
    ELSE l

\* LanguageServer.event_did_close
event_did_close(l, m) ==
    IF l.has_started /\ m.p.uri # "" /\ m.p.uri \in DOMAIN l.dirty_files
    THEN [l EXCEPT !.dirty_files = Without(l.dirty_files, m.p.uri)]
    ELSE l

\* provide_diagnostic as event_did_save and _compile_all_rules see it: the
\* diagnostics are found ("diag"), none are ("none"), or an error is raised
provide_diagnostic ==
    IF has_yara THEN {"none", "diag", "DiagnosticError"} ELSE {"NoDependencyFound"}

\* the diagnostics event_did_save asks for: only with compile_on_save set
save_diagnostics(m) ==
    IF m.method = "textDocument/didSave" /\ has_started /\ m.p.uri # "" /\ config
    THEN provide_diagnostic ELSE {"none"}

\* event_did_save without the call of the base class: the dirty entry stays
event_did_save_KeepsDirty(l, m, d) ==
    IF l.has_started /\ m.p.uri # ""
    THEN IF l.config /\ d \in {"DiagnosticError", "NoDependencyFound"}
         THEN [l EXCEPT !.raise = d]
         ELSE [l EXCEPT !.sent =
                 << Notification("textDocument/publishDiagnostics", 0, m.p.uri) >>]
    ELSE l

\* YaraLanguageServer.event_did_save: the base class drops the dirty entry, then
\* the diagnostics of the saved file are published (empty unless compile_on_save)
event_did_save(l, m, d) ==
    LET l1 == event_did_close(l, m)
    IN  IF l.has_started /\ m.p.uri # ""
        THEN IF l.config /\ d \in {"DiagnosticError", "NoDependencyFound"}
             THEN [l1 EXCEPT !.raise = d]
             ELSE [l1 EXCEPT !.sent =
                     << Notification("textDocument/publishDiagnostics", 0, m.p.uri) >>]
        ELSE l1

\* event_exit honoured only once a shutdown request has been handled
event_exit_AfterShutdownOnly(l, m) ==
    IF l.has_started /\ shutdown_seen
    THEN [l EXCEPT !.writer_closed = TRUE, !.raise = "ServerExit"]
    ELSE l

\* LanguageServer.event_exit with remove_client: the writer is closed, then
\* ServerExit is raised
event_exit(l, m) ==
    IF l.has_started
    THEN [l EXCEPT !.writer_closed = TRUE, !.raise = "ServerExit"]
    ELSE l

\* a cancellation that cancels the task registered under the id
event_cancel_Cancels(l, m) ==
    IF ~l.has_started THEN l
    ELSE IF m.p.ref.t # "int"
    THEN [l EXCEPT !.logged = @ \o << LogEntry("warning", "task cancellation", NoId) >>]
    ELSE IF m.p.ref.v \in DOMAIN l.running_tasks
    THEN [l EXCEPT !.running_tasks[m.p.ref.v] = "cancelled"]
    ELSE l

\* LanguageServer.event_cancel: int(params.get("id")) fails for an id that is
\* absent or no number, which is caught and logged as a warning; a task found
\* under the id is only logged (at debug level)
event_cancel(l, m) ==
    IF ~l.has_started THEN l
    ELSE IF m.p.ref.t # "int"
    THEN [l EXCEPT !.logged = @ \o << LogEntry("warning", "task cancellation", NoId) >>]
    ELSE IF m.p.ref.v \in DOMAIN l.running_tasks
    THEN l
    ELSE l

\* the notification branch with has_started assigned on every such notification
other_notification_Reassigns(l, m) ==
    IF m.method = "initialized"
    THEN [l EXCEPT !.has_started = TRUE,
                   !.sent = << Notification("window/showMessageRequest", INFO, "") >>]
    ELSE [l EXCEPT !.has_started = FALSE]

\* handle_client, the notification branch for methods without an event handler
other_notification(l, m) ==
    IF ~l.has_started /\ m.method = "initialized"
    THEN [l EXCEPT !.has_started = TRUE,
                   !.logged = << LogEntry("info", "initialized", NoId) >>,
                   !.sent = << Notification("window/showMessageRequest", INFO, "") >>]
    ELSE IF l.has_started /\ m.method = "workspace/didChangeConfiguration"
    THEN [l EXCEPT !.config = m.p.cos]
    ELSE [l EXCEPT !.logged = << LogEntry("warning", "unknown notification", NoId) >>]

\* handle_client, the notification branch: what the routed handler leaves
route_notification(l, m, d) ==
    CASE m.method = "textDocument/didChange" -> event_did_change(l, m)
      [] m.method = "textDocument/didClose" -> event_did_close(l, m)
      [] m.method = "textDocument/didSave" -> event_did_save(l, m, d)
      [] m.method = "exit" -> event_exit(l, m)
      [] m.method = "$/cancelRequest" -> event_cancel(l, m)
      [] OTHER -> other_notification(l, m)

\* the except clauses of handle_client
Warned == {"NoDependencyFound"}
Reported ==
    { "CodeCompletionError", "DefinitionError", "DiagnosticError", "HighlightError",
      "HoverError", "RenameError", "SymbolReferenceError" }

\* what handle_client writes for an exception e that reaches its try block
caught(e) ==
    IF e \in Warned THEN << Notification("window/showMessage", WARNING, "") >>
    ELSE IF e \in Reported THEN << Notification("window/showMessage", ERROR, "") >>
    ELSE << >>

caught_log(e) ==
    IF e \in Warned THEN << LogEntry("warning", e, NoId) >>
    ELSE IF e \in Reported THEN << LogEntry("error", e, NoId) >>
    ELSE << >>

\* where handle_client is after an exception e ("" for none)
after(e) ==
    IF e = "" \/ e \in Warned \cup Reported THEN "read"
    ELSE IF e = "ServerExit" THEN "exited"
    ELSE "dead"

\* -------------------------------------------------------- request handlers
\* one way a request handler can run: what it returns or raises, what it wrote
\* and logged itself, and the state it leaves
Run ==
    [kind |-> "return", value |-> Null, err |-> "", sent |-> << >>, logged |-> << >>,
     workspace |-> workspace, hover_langs |-> hover_langs, dirty_files |-> dirty_files]

Returns(v) == [Run EXCEPT !.value = v]
Raises(e) == [Run EXCEPT !.kind = "raise", !.err = e]

\* the elements of a set in some fixed order
RECURSIVE SetToSeq(_)
SetToSeq(S) ==
    IF S = {} THEN << >>
    ELSE LET x == CHOOSE y \in S : TRUE IN << x >> \o SetToSeq(S \ {x})

\* the compile commands listed whether or not yara is installed
server_options_CommandsAlways(dyn) ==
    { c \in { "completionProvider", "definitionProvider", "hoverProvider",
              "executeCommandProvider", "documentFormattingProvider",
              "referencesProvider", "renameProvider", "textDocumentSync" } :
        \/ c = "completionProvider" /\ "completion" \in dyn
        \/ c = "definitionProvider" /\ "definition" \in dyn
        \/ c = "hoverProvider" /\ "hover" \in dyn
        \/ c = "executeCommandProvider" /\ "executeCommand" \in dyn
        \/ c = "documentFormattingProvider" /\ "formatting" \in dyn
        \/ c = "referencesProvider" /\ "references" \in dyn
        \/ c = "renameProvider" /\ "rename" \in dyn
        \/ c = "textDocumentSync" /\ "synchronization" \in dyn }
    \cup (IF "executeCommand" \in dyn
          THEN {"yara.CompileRule", "yara.CompileAllRules"} ELSE {})

\* initialize: server_options
server_options(dyn) ==
    { c \in { "completionProvider", "definitionProvider", "hoverProvider",
              "executeCommandProvider", "documentFormattingProvider",
              "referencesProvider", "renameProvider", "textDocumentSync" } :
        \/ c = "completionProvider" /\ "completion" \in dyn
        \/ c = "definitionProvider" /\ "definition" \in dyn
        \/ c = "hoverProvider" /\ "hover" \in dyn
        \/ c = "executeCommandProvider" /\ "executeCommand" \in dyn
        \/ c = "documentFormattingProvider" /\ "formatting" \in dyn
        \/ c = "referencesProvider" /\ "references" \in dyn
        \/ c = "renameProvider" /\ "rename" \in dyn
        \/ c = "textDocumentSync" /\ "synchronization" \in dyn }
    \cup (IF "executeCommand" \in dyn /\ has_yara
          THEN {"yara.CompileRule", "yara.CompileAllRules"} ELSE {})

\* YaraLanguageServer.initialize
initialize(m, started) ==
    IF ~started
    THEN { [Returns(Caps(server_options(m.p.dyn))) EXCEPT
              !.workspace = IF m.p.root # "" THEN m.p.root ELSE "False",
              !.hover_langs = IF "hover" \in m.p.dyn /\ m.p.fmt # ""
                              THEN m.p.fmt ELSE hover_langs] }
    ELSE { Returns(Null) }

\* YaraLanguageServer.shutdown: answers the request itself and clears the
\* dirty files
shutdown(m, started) ==
    IF started
    THEN { [Returns(Null) EXCEPT
              !.sent = << Response(m.id, EmptyDict) >>,
              !.logged = << LogEntry("info", "Client requested shutdown", m.id) >>,
              !.dirty_files = NoDirtyFiles] }
    ELSE { Returns(Null) }

\* _compile_all_rules: the documents compiled
documents ==
    IF workspace # "False"
    THEN (DOMAIN dirty_files) \cup WorkspaceFiles(workspace)
    ELSE DOMAIN dirty_files

\* YaraLanguageServer.execute_command
execute_command(m, started) ==
    IF ~started THEN { Raises("UnboundLocalError") }
    ELSE IF m.p.cmd # "yara.CompileAllRules" \/ documents = {}
    THEN { Returns(CmdResult({})) }
    ELSE IF ~has_yara THEN { Raises("NoDependencyFound") }
    ELSE { [Returns(CmdResult({})) EXCEPT !.sent =
              [i \in 1..Cardinality(D) |->
                 Notification("textDocument/publishDiagnostics", 0, SetToSeq(D)[i])]] :
              D \in SUBSET documents }
         \cup { Returns(CmdResult({"error"})) }

\* self._get_document(file_uri, dirty_files) of a provider finds the document
found(m) == _get_document(m.p.uri, dirty_files, FileSystem).kind = "return"

\* YaraLanguageServer.provide_code_completion
provide_code_completion(m, started) ==
    IF started /\ m.p.uri # ""
    THEN IF found(m)
         THEN { Returns(Value("items")), Returns(EmptyList), Raises("CodeCompletionError") }
         ELSE { Raises("CodeCompletionError") }
    ELSE { Returns(Null) }

\* YaraLanguageServer.provide_definition: without a symbol, symbol[0] fails
\* and the handler raises DefinitionError
provide_definition(m, started) ==
    IF started /\ m.p.uri # "" /\ found(m)
    THEN { Returns(Value("locations")), Returns(EmptyList), Raises("DefinitionError") }
    ELSE { Raises("DefinitionError") }

\* YaraLanguageServer.provide_formatting
provide_formatting(m, started) ==
    IF ~has_plyara THEN { Raises("NoDependencyFound") }
    ELSE IF started /\ m.p.uri # ""
    THEN IF found(m)
         THEN { Returns(Value("edits")), Returns(EmptyList),
                [Returns(EmptyList) EXCEPT
                   !.sent = << Notification("window/showMessage", ERROR, "") >>],
                Raises("FormatError") }
         ELSE { Raises("FormatError") }
    ELSE { Returns(EmptyList) }

\* YaraLanguageServer.provide_highlight
provide_highlight(m, started) ==
    IF started /\ m.p.uri # "" THEN { Returns(EmptyList) } ELSE { Returns(Null) }

\* YaraLanguageServer.provide_hover
provide_hover(m, started) ==
    IF started /\ m.p.uri # ""
    THEN IF found(m)
         THEN { Returns(Value("hover")), Returns(Null), Raises("HoverError") }
         ELSE { Raises("HoverError") }
    ELSE { Returns(Null) }

\* YaraLanguageServer.provide_reference: when the document cannot be read the
\* except clause formats `symbol' before it was ever assigned
provide_reference(m, started) ==
    IF started /\ m.p.uri # ""
    THEN IF found(m)
         THEN { Returns(Value("locations")), Returns(EmptyList),
                Raises("SymbolReferenceError") }
         ELSE { Raises("UnboundLocalError") }
    ELSE { Returns(Null) }

\* the edits built for all references but the last
provide_rename_results_DropsLast(old_text, new_text, refs) ==
    IF refs.kind = "raise" THEN [kind |-> "raise", changes |-> << >>]
    ELSE IF new_text # "None" /\ new_text # old_text /\ old_text = "None"
    THEN [kind |-> "raise", changes |-> << >>]
    ELSE IF new_text = "None" /\ refs.v # << >>
    THEN [kind |-> "raise", changes |-> << >>]
    ELSE [kind |-> "return",
          changes |-> [i \in 1..(Len(refs.v) - 1) |->
                         [range |-> [start |-> refs.v[i].range.start,
                                     end |-> refs.v[i].range.end],
                          newText |-> new_text]]]

\* YaraLanguageServer.provide_rename once the document is read: `results' for
\* the symbol old_text under the cursor ("None" when there is none), the
\* newName new_text ("None" when absent) and what provide_reference gives for
\* the same message.  The three warnings skip nothing; endswith fails on a
\* missing symbol and TextEdit on a missing name, both ending in RenameError
provide_rename_results(old_text, new_text, refs) ==
    IF refs.kind = "raise" THEN [kind |-> "raise", changes |-> << >>]
    ELSE IF new_text # "None" /\ new_text # old_text /\ old_text = "None"
    THEN [kind |-> "raise", changes |-> << >>]
    ELSE IF new_text = "None" /\ refs.v # << >>
    THEN [kind |-> "raise", changes |-> << >>]
    ELSE [kind |-> "return",
          changes |-> [i \in 1..Len(refs.v) |->
                         [range |-> [start |-> refs.v[i].range.start,
                                     end |-> refs.v[i].range.end],
                          newText |-> new_text]]]

\* YaraLanguageServer.provide_rename
provide_rename(m, started) ==
    IF started /\ m.p.uri # ""
    THEN IF found(m)
         THEN { Returns(Value("edits")), Raises("RenameError") }
         ELSE { Raises("RenameError") }
    ELSE { Returns(Null) }

\* self.request_handlers[method](message=message, writer=writer, **params)
coroutine(m, started) ==
    CASE m.method = "initialize" -> initialize(m, started)
      [] m.method = "shutdown" -> shutdown(m, started)
      [] m.method = "workspace/executeCommand" -> execute_command(m, started)
      [] m.method = "textDocument/completion" -> provide_code_completion(m, started)
      [] m.method = "textDocument/definition" -> provide_definition(m, started)
      [] m.method = "textDocument/formatting" -> provide_formatting(m, started)
      [] m.method = "textDocument/documentHighlight" -> provide_highlight(m, started)
      [] m.method = "textDocument/hover" -> provide_hover(m, started)
      [] m.method = "textDocument/references" -> provide_reference(m, started)
      [] m.method = "textDocument/rename" -> provide_rename(m, started)

\* ------------------------------------------------------------ the scheduler
\* execute_method: the handler is launched iff the id is >= 0 and the method
\* is routed
launches(m) == IntNonNegative(m.id) /\ m.method \in request_handlers

\* the branch without a handler letting the failure through
no_handler_Silent(m) == << >>

\* execute_method, the branch without a handler
no_handler(m) == << Response(m.id, Null) >>
no_handler_log(m) == << LogEntry("error", "unknown request method", m.id) >>

\* the response built without the handler's value
completed_NullResult(m, v) ==
    IF m.method \notin {"shutdown", "exit"} THEN << Response(m.id, Null) >> ELSE << >>

\* execute_method after the handler has returned v
completed(m, v) ==
    IF m.method \notin {"shutdown", "exit"} THEN << Response(m.id, v) >> ELSE << >>

\* the timeout only logged
timed_out_Silent(m) == << >>

\* the null response of the timeout followed by a response of the handler,
\* were it left running
timed_out_HandlerAnswersToo(m) == << Response(m.id, Null), Response(m.id, EmptyList) >>

\* execute_method, except AsyncTimeoutError
timed_out(m) == << Response(m.id, Null) >>
timed_out_log(m) == << LogEntry("warning", "timed out", m.id) >>

\* ------------------------------------------------------------- the actions
\* handle_client up to its loop: a client connects
Connect ==
    /\ pc = "idle"
    /\ pc' = "read"
    /\ num_clients' = num_clients + 1
    /\ UNCHANGED << has_started, dirty_files, config, workspace, hover_langs,
                    writer_closed, exc, has_yara, has_plyara, cur, started_at, outcome,
                    returned, own, sent, logged, init_seen, shutdown_seen >>
    /\ UNCHANGED << raised, warned >>
    /\ UNCHANGED << running_tasks, task >>
    /\ UNCHANGED << call, wire, clients >>

\* reader.at_eof(): the client has closed the stream
ClientCloses ==
    /\ pc = "read"
    /\ pc' = "closed"
    /\ num_clients' = num_clients - 1
    /\ cur' = NoMessage
    /\ started_at' = has_started
    /\ outcome' = "none"
    /\ returned' = Null
    /\ own' = 0
    /\ sent' = << >>
    /\ logged' = << LogEntry("info", "Client has closed", NoId) >>
    /\ UNCHANGED << has_started, dirty_files, config, workspace, hover_langs,
                    writer_closed, exc, has_yara, has_plyara, init_seen, shutdown_seen >>
    /\ raised' = ""
    /\ UNCHANGED warned
    /\ UNCHANGED running_tasks
    /\ task' = "none"
    /\ UNCHANGED << call, wire, clients >>

\* one turn of the loop for a notification (no "id" key)
ReceiveNotification(m) ==
    /\ pc = "read"
    /\ ~m.hasid
    /\ \E d \in save_diagnostics(m) :
         LET l == route_notification(loop_head(Locals), m, d)
         IN  /\ has_started' = l.has_started
             /\ dirty_files' = l.dirty_files
             /\ config' = l.config
             /\ writer_closed' = l.writer_closed
             /\ sent' = l.sent \o caught(l.raise)
             /\ logged' = l.logged \o caught_log(l.raise)
             /\ pc' = after(l.raise)
             /\ exc' = IF after(l.raise) = "read" THEN "" ELSE l.raise
             /\ raised' = l.raise
             /\ warned' = (warned \/ l.raise = "NoDependencyFound")
             /\ running_tasks' = l.running_tasks
    /\ task' = "none"
    /\ cur' = m
    /\ started_at' = has_started
    /\ outcome' = "none"
    /\ returned' = Null
    /\ own' = 0
    /\ UNCHANGED << workspace, hover_langs, num_clients, has_yara, has_plyara,
                    init_seen, shutdown_seen >>
    /\ UNCHANGED << call, wire, clients >>

\* one turn of the loop for a request ("id" in message): execute_method up to
\* the await of the handler
ReceiveRequest(m) ==
    /\ pc = "read"
    /\ m.hasid
    /\ cur' = m
    /\ started_at' = has_started
    /\ returned' = Null
    /\ own' = 0
    /\ IF launches(m)
       THEN /\ pc' = "exec"
            /\ outcome' = "none"
            /\ sent' = << >>
            /\ logged' = << >>
       ELSE /\ pc' = "read"
            /\ outcome' = "unknown"
            /\ sent' = no_handler(m)
            /\ logged' = no_handler_log(m)
    /\ dirty_files' = loop_head(Locals).dirty_files
    /\ writer_closed' = loop_head(Locals).writer_closed
    /\ UNCHANGED << has_started, config, workspace, hover_langs, num_clients, exc,
                    has_yara, has_plyara, init_seen, shutdown_seen >>
    /\ raised' = ""
    /\ UNCHANGED warned
    /\ UNCHANGED running_tasks
    /\ task' = IF launches(m) THEN "running" ELSE "none"
    /\ UNCHANGED << call, wire, clients >>

\* the handler returns within TASK_TIMEOUT: execute_method sends the response
HandlerReturns ==
    /\ pc = "exec"
    /\ \E o \in coroutine(cur, has_started) :
         /\ o.kind = "return"
         /\ sent' = o.sent \o completed(cur, o.value)
         /\ own' = Len(o.sent)
         /\ logged' = o.logged
         /\ returned' = o.value
         /\ workspace' = o.workspace
         /\ hover_langs' = o.hover_langs
         /\ dirty_files' = o.dirty_files
    /\ outcome' = "return"
    /\ pc' = "read"
    /\ init_seen' = (init_seen \/ cur.method = "initialize")
    /\ shutdown_seen' = (shutdown_seen \/ (cur.method = "shutdown" /\ has_started))
    /\ UNCHANGED << has_started, config, num_clients, writer_closed, exc, has_yara,
                    has_plyara, cur, started_at >>
    /\ raised' = ""
    /\ UNCHANGED warned
    /\ UNCHANGED running_tasks
    /\ task' = "done"
    /\ UNCHANGED << call, wire, clients >>

\* the handler raises: execute_method lets the exception through to the except
\* clauses of handle_client
HandlerRaises ==
    /\ pc = "exec"
    /\ \E o \in coroutine(cur, has_started) :
         /\ o.kind = "raise"
         /\ sent' = o.sent \o caught(o.err)
         /\ own' = Len(o.sent)
         /\ logged' = o.logged \o caught_log(o.err)
         /\ pc' = after(o.err)
         /\ exc' = IF after(o.err) = "read" THEN exc ELSE o.err
         /\ raised' = o.err
         /\ warned' = (warned \/ (o.err = "NoDependencyFound"
                                    /\ cur.method = "workspace/executeCommand"))
    /\ outcome' = "raise"
    /\ UNCHANGED << has_started, dirty_files, config, workspace, hover_langs,
                    num_clients, writer_closed, has_yara, has_plyara, cur, started_at,
                    returned, init_seen, shutdown_seen >>
    /\ UNCHANGED running_tasks
    /\ task' = "done"
    /\ UNCHANGED << call, wire, clients >>

\* asyncio.wait_for gives up after TASK_TIMEOUT: the handler is cancelled where
\* it awaits (having written some of its messages) and a null response is sent
HandlerTimesOut ==
    /\ pc = "exec"
    /\ \E o \in coroutine(cur, has_started) : \E k \in 0..Len(o.sent) :
         /\ sent' = SubSeq(o.sent, 1, k) \o timed_out(cur)
         /\ own' = k
    /\ logged' = timed_out_log(cur)
    /\ outcome' = "timeout"
    /\ pc' = "read"
    /\ UNCHANGED << has_started, dirty_files, config, workspace, hover_langs,
                    num_clients, writer_closed, exc, has_yara, has_plyara, cur,
                    started_at, returned, init_seen, shutdown_seen >>
    /\ raised' = ""
    /\ UNCHANGED warned
    /\ UNCHANGED running_tasks
    /\ task' = "cancelled"
    /\ UNCHANGED << call, wire, clients >>

Next ==
    \/ Connect
    \/ ClientCloses
    \/ \E m \in ClientNotifications : ReceiveNotification(m)
    \/ \E m \in ClientRequests : ReceiveRequest(m)
    \/ HandlerReturns
    \/ HandlerRaises
    \/ HandlerTimesOut

Spec == Init /\ [][Next]_vars

\* ----------------------------------------------------------- the wire codec
\* A string is a sequence of characters: "a" stands for the ASCII characters,
\* "U+00E9" for a character outside ASCII.  Bytes are written as the ASCII
\* character they encode, or "0xC3", "0xA9"; "CRLF" is the two bytes of EOL and
\* "Content-Length:" the bytes of that word.

\* str.encode(self.ENCODING)
RECURSIVE encode(_)
encode(str) ==
    IF str = << >> THEN << >>
    ELSE (IF Head(str) = "U+00E9" THEN << "0xC3", "0xA9" >> ELSE << Head(str) >>)
         \o encode(Tail(str))

\* bytes.decode(self.ENCODING): ok is FALSE for a UnicodeDecodeError
RECURSIVE decode(_)
decode(data) ==
    IF data = << >> THEN [ok |-> TRUE, v |-> << >>]
    ELSE IF Head(data) = "0xC3"
    THEN IF Len(data) >= 2 /\ data[2] = "0xA9"
         THEN LET r == decode(SubSeq(data, 3, Len(data)))
              IN  [ok |-> r.ok, v |-> << "U+00E9" >> \o r.v]
         ELSE [ok |-> FALSE, v |-> << >>]
    ELSE IF Head(data) = "0xA9" THEN [ok |-> FALSE, v |-> << >>]
    ELSE LET r == decode(Tail(data)) IN [ok |-> r.ok, v |-> << Head(data) >> \o r.v]

\* "{:d}".format(n)
RECURSIVE format_d(_)
format_d(n) ==
    LET digit == << "0", "1", "2", "3", "4", "5", "6", "7", "8", "9" >>
    IN  IF n < 10 THEN << digit[n + 1] >>
        ELSE format_d(n \div 10) \o << digit[(n % 10) + 1] >>

\* int(value): -1 stands for a ValueError
RECURSIVE int(_)
int(value) ==
    LET digit == << "0", "1", "2", "3", "4", "5", "6", "7", "8", "9" >>
        last == value[Len(value)]
        high == int(SubSeq(value, 1, Len(value) - 1))
    IN  IF value = << >> \/ ~(\E d \in 1..10 : digit[d] = last) THEN -1
        ELSE IF Len(value) = 1 THEN (CHOOSE d \in 1..10 : digit[d] = last) - 1
        ELSE IF high < 0 THEN -1
        ELSE 10 * high + (CHOOSE d \in 1..10 : digit[d] = last) - 1

\* json.dumps without the escape of the characters outside ASCII
dumps_Raw(text) == << "\"" >> \o text \o << "\"" >>

\* json.dumps(..., cls=lsp.JSONEncoder) of a message whose text is `text':
\* ensure_ascii escapes every character outside ASCII
dumps(text) ==
    LET RECURSIVE escape(_)
        escape(t) ==
            IF t = << >> THEN << >>
            ELSE (IF Head(t) = "U+00E9" THEN << "\\", "u", "0", "0", "e", "9" >>
                  ELSE << Head(t) >>) \o escape(Tail(t))
    IN  << "\"" >> \o escape(text) \o << "\"" >>

\* json.loads: ok is FALSE for a JSONDecodeError
loads(str) ==
    LET RECURSIVE unescape(_)
        unescape(t) ==
            IF t = << >> THEN [ok |-> TRUE, v |-> << >>]
            ELSE IF Head(t) = "\\"
            THEN IF Len(t) >= 6 /\ SubSeq(t, 2, 6) = << "u", "0", "0", "e", "9" >>
                 THEN LET r == unescape(SubSeq(t, 7, Len(t)))
                      IN  [ok |-> r.ok, v |-> << "U+00E9" >> \o r.v]
                 ELSE [ok |-> FALSE, v |-> << >>]
            ELSE IF Head(t) = "\"" THEN [ok |-> FALSE, v |-> << >>]
            ELSE LET r == unescape(Tail(t)) IN [ok |-> r.ok, v |-> << Head(t) >> \o r.v]
    IN  IF Len(str) >= 2 /\ str[1] = "\"" /\ str[Len(str)] = "\""
        THEN unescape(SubSeq(str, 2, Len(str) - 1))
        ELSE [ok |-> FALSE, v |-> << >>]

\* the header and the body handed to the writer one after the other
write_data_HeaderThenBody(message) ==
    << << "Content-Length:", " " >> \o format_d(Len(message)) \o << "CRLF", "CRLF" >>,
       encode(message) >>

\* LanguageServer.write_data: what is handed to writer.write, call by call: one
\* call with the header, the separator and the body
write_data(message) ==
    << << "Content-Length:", " " >> \o format_d(Len(message)) \o << "CRLF", "CRLF" >>
       \o encode(message) >>

\* reader.readline / readuntil(EOL): the index of the first EOL of data after
\* index `from', 0 when there is none
EOL(data, from) ==
    IF \E i \in (from + 1)..Len(data) : data[i] = "CRLF"
    THEN CHOOSE i \in (from + 1)..Len(data) :
            data[i] = "CRLF" /\ \A j \in (from + 1)..(i - 1) : data[j] # "CRLF"
    ELSE 0

\* LanguageServer.read_request on the bytes not yet consumed: the request it
\* returns and the number of bytes it used; "wait" when it awaits more bytes,
\* "raise" when it fails
read_request(data) ==
    LET eol1 == EOL(data, 0)
        line == decode(SubSeq(data, 1, eol1 - 1))
        gaps == { i \in DOMAIN line.v : line.v[i] = " " }
        gap == CHOOSE i \in gaps : TRUE
        key == SubSeq(line.v, 1, gap - 1)
        value == SubSeq(line.v, gap + 1, Len(line.v))
        eol2 == EOL(data, eol1)
        last == IF key = << "Content-Length:" >> THEN eol2 + int(value) ELSE EOL(data, eol2)
        body == decode(SubSeq(data, eol2 + 1, last))
        Result(kind, request, used) == [kind |-> kind, request |-> request, used |-> used]
    IN  IF data = << >> \/ eol1 = 0 THEN Result("wait", << >>, 0)
        ELSE IF ~line.ok \/ Cardinality(gaps) # 1 THEN Result("raise", << >>, eol1)
        ELSE IF eol2 = 0 THEN Result("wait", << >>, 0)
        ELSE IF key = << "Content-Length:" >> /\ int(value) < 0 THEN Result("raise", << >>, eol2)
        ELSE IF last = 0 \/ last > Len(data) THEN Result("wait", << >>, 0)
        ELSE IF ~body.ok \/ ~loads(body.v).ok THEN Result("raise", << >>, last)
        ELSE Result("request", loads(body.v).v, last)

\* the texts of the messages written: up to MaxLen characters
Messages == UNION { [1..n -> {"a", "U+00E9"}] : n \in 1..MaxLen }

InitWire ==
    /\ InitServer
    /\ has_yara = FALSE
    /\ has_plyara = FALSE
    /\ call = NoCall
    /\ wire = NoWire

\* send_response / send_notification / send_error in task w: json.dumps, then
\* write_data up to its first writer.write and on to `await writer.drain()'
Send(w, text) ==
    /\ wire.task[w].at = "idle"
    /\ Len(wire.written) < MaxFrames
    /\ LET writes == write_data(dumps(text))
       IN  wire' = [wire EXCEPT !.out = @ \o Head(writes),
                                !.task[w] = [at |-> "drain", rest |-> Tail(writes)],
                                !.written = Append(@, text)]
    /\ UNCHANGED << server_vars, call, clients >>

\* task w resumes after an await in write_data: it hands on what is left to
\* write, or write_data returns
Resume(w) ==
    /\ wire.task[w].at = "drain"
    /\ wire' = IF wire.task[w].rest = << >>
               THEN [wire EXCEPT !.task[w].at = "idle"]
               ELSE [wire EXCEPT !.out = @ \o Head(wire.task[w].rest),
                                 !.task[w].rest = Tail(@)]
    /\ UNCHANGED << server_vars, call, clients >>

\* the peer calls read_request on the stream
Read ==
    /\ ~wire.failed
    /\ LET r == read_request(SubSeq(wire.out, wire.pos + 1, Len(wire.out)))
       IN  /\ r.kind # "wait"
           /\ wire' = [wire EXCEPT !.pos = @ + r.used,
                                   !.failed = (r.kind = "raise"),
                                   !.decoded = IF r.kind = "request"
                                               THEN Append(@, r.request) ELSE @]
    /\ UNCHANGED << server_vars, call, clients >>

NextWire ==
    \/ \E w \in Writers : \E text \in Messages : Send(w, text)
    \/ \E w \in Writers : Resume(w)
    \/ Read

SpecWire == InitWire /\ [][NextWire]_vars

\* -------------------------------------------------------- the symbol engine
\* A document is document.split("\n"): a sequence of lines, each a sequence of
\* characters ("TAB" is the tab character).
Sigils == {"$", "#", "@", "!"}
Spaces == {" ", "TAB"}
WordChars ==
    {"a", "b", "c", "d", "e", "g", "i", "l", "n", "o", "r", "s", "t", "u", "x"}
AnyChar == WordChars \cup Sigils \cup Spaces \cup {"=", ":", "*", "}", "."}

\* a regular expression is a sequence of atoms: a character set taken once
\* ("1"), any number of times greedily ("*") or lazily ("*?"), or \b ("b")
Atom(cs, q) == [cs |-> cs, q |-> q]
Literal(str) == [i \in DOMAIN str |-> Atom({str[i]}, "1")]
WordBoundary == << Atom({}, "b") >>

\* re.compile of the text of a symbol put into a pattern by str.format: `.' is
\* any character, `*' repeats the atom before it and `*?' does so lazily
RECURSIVE compile(_)
compile(str) ==
    IF str = << >> THEN << >>
    ELSE LET cs == IF str[1] = "." THEN AnyChar ELSE {str[1]}
             star == Len(str) >= 2 /\ str[2] = "*"
             lazy == star /\ Len(str) >= 3 /\ str[3] = "?"
             used == IF lazy THEN 3 ELSE IF star THEN 2 ELSE 1
         IN  << Atom(cs, IF lazy THEN "*?" ELSE IF star THEN "*" ELSE "1") >>
               \o compile(SubSeq(str, used + 1, Len(str)))

\* \b at index i (between line[i-1] and line[i])
boundary(line, i) ==
    LET before == i > 1 /\ line[i - 1] \in WordChars
        here == i <= Len(line) /\ line[i] \in WordChars
    IN  before # here

\* the backtracking matcher of re: the ends of the matches of atoms[k..] that
\* start at index i, in the order re tries them
RECURSIVE ends(_, _, _, _)
ends(atoms, k, line, i) ==
    IF k > Len(atoms) THEN << i >>
    ELSE LET a == atoms[k]
             eats == i <= Len(line) /\ line[i] \in a.cs
         IN  CASE a.q = "b" -> IF boundary(line, i) THEN ends(atoms, k + 1, line, i) ELSE << >>
               [] a.q = "1" -> IF eats THEN ends(atoms, k + 1, line, i + 1) ELSE << >>
               [] a.q = "*" -> (IF eats THEN ends(atoms, k, line, i + 1) ELSE << >>)
                                 \o ends(atoms, k + 1, line, i)
               [] a.q = "*?" -> ends(atoms, k + 1, line, i)
                                  \o (IF eats THEN ends(atoms, k, line, i + 1) ELSE << >>)

\* re.finditer(pattern, line): the matches from index p on, left to right and
\* not overlapping, as [start, end] with the 0-based offsets of match.start()
\* and match.end()
RECURSIVE finditer(_, _, _)
finditer(atoms, line, p) ==
    LET starts == { s \in p..(Len(line) + 1) : ends(atoms, 1, line, s) # << >> }
    IN  IF starts = {} THEN << >>
        ELSE LET s == CHOOSE x \in starts : \A y \in starts : x <= y
                 e == ends(atoms, 1, line, s)[1]
             IN  << [start |-> s - 1, end |-> e - 1] >>
                   \o finditer(atoms, line, IF e > s THEN e ELSE s + 1)

\* `str in line'
contains(line, str) ==
    \E i \in 1..(Len(line) - Len(str) + 1) : SubSeq(line, i, i + Len(str) - 1) = str

\* line.split(" = "): the pieces between the occurrences of the separator
RECURSIVE split(_, _)
split(line, sep) ==
    LET at == { i \in 1..(Len(line) - Len(sep) + 1) : SubSeq(line, i, i + Len(sep) - 1) = sep }
    IN  IF at = {} THEN << line >>
        ELSE LET i == CHOOSE x \in at : \A y \in at : x <= y
             IN  << SubSeq(line, 1, i - 1) >> \o split(SubSeq(line, i + Len(sep), Len(line)), sep)

\* helpers.resolve_symbol(document, pos): the word under the cursor (or ending
\* at it) with the sigil before it and a `*' after it; << >> is None
resolve_symbol(document, pos) ==
    IF pos.line + 1 > Len(document) THEN << >>
    ELSE LET line == document[pos.line + 1]
             in_symbol(i) == i >= 1 /\ i <= Len(line) /\ line[i] \in WordChars \cup Sigils
             word(i) == i >= 1 /\ i <= Len(line) /\ line[i] \in WordChars
             at == IF in_symbol(pos.char + 1) THEN pos.char + 1
                   ELSE IF in_symbol(pos.char) THEN pos.char ELSE 0
             first == IF line[at] \in Sigils THEN at + 1
                      ELSE CHOOSE l \in 1..at :
                             /\ \A j \in l..at : word(j)
                             /\ ~word(l - 1)
             last == IF ~word(first) THEN first - 1
                     ELSE CHOOSE r \in first..Len(line) :
                            /\ \A j \in first..r : word(j)
                            /\ ~word(r + 1)
             left == IF first > 1 /\ line[first - 1] \in Sigils THEN first - 1 ELSE first
             right == IF last < Len(line) /\ line[last + 1] = "*" THEN last + 1 ELSE last
         IN  IF at = 0 \/ last < first THEN << >> ELSE SubSeq(line, left, right)

\* helpers.get_rule_range(document, pos): the lines from the rule header at or
\* above the cursor to the closing line at or below it
get_rule_range(document, pos) ==
    LET headers == { i \in 1..Len(document) :
                       /\ i <= pos.line + 1
                       /\ Len(document[i]) >= 5
                       /\ SubSeq(document[i], 1, 5) = << "r", "u", "l", "e", " " >> }
        closings == { i \in 1..Len(document) : i >= pos.line + 1 /\ contains(document[i], << "}" >>) }
        top == IF headers = {} THEN 1 ELSE CHOOSE i \in headers : \A j \in headers : j <= i
        bottom == IF closings = {} THEN Len(document)
                  ELSE CHOOSE i \in closings : \A j \in closings : i <= j
    IN  [start |-> [line |-> top - 1, char |-> 0], end |-> [line |-> bottom - 1, char |-> 0]]

\* lsp.Location(lsp.Range(Position(offset, start), Position(offset, end)), file_uri)
Location(line, start, end) ==
    [range |-> [start |-> [line |-> line, char |-> start],
                end |-> [line |-> line, char |-> end]]]

\* for index, line in enumerate(lines): for match in re.finditer(pattern, line):
\* results.append(Location(...)), the lines being document[from..to]
RECURSIVE matches(_, _, _, _, _)
matches(atoms, document, from, to, char_start_offset) ==
    IF from > to \/ from > Len(document) THEN << >>
    ELSE LET found_in_line == finditer(atoms, document[from], 1)
         IN  [i \in DOMAIN found_in_line |->
                Location(from - 1, found_in_line[i].start + char_start_offset,
                         found_in_line[i].end)]
               \o matches(atoms, document, from + 1, to, char_start_offset)

\* the definition of a variable searched in the whole document
provide_definition_results_WholeDocument(document, pos) ==
    LET symbol == resolve_symbol(document, pos)
    IN  IF symbol = << >> THEN [kind |-> "return", v |-> << >>]
        ELSE IF symbol[1] \in Sigils
        THEN [kind |-> "return",
              v |-> matches(Literal(<< "$" >>) \o compile(Tail(symbol))
                              \o Literal(<< " ", "=" >>) \o << Atom(Spaces, "1") >>,
                            document, 1, Len(document), 1)]
        ELSE [kind |-> "return",
              v |-> matches(WordBoundary \o Literal(<< "r", "u", "l", "e", " " >>)
                              \o compile(symbol) \o WordBoundary,
                            document, 1, Len(document), 5)]

\* YaraLanguageServer.provide_definition once the document is read
provide_definition_results(document, pos) ==
    LET symbol == resolve_symbol(document, pos)
        rule_range == get_rule_range(document, pos)
    IN  IF symbol = << >> THEN [kind |-> "return", v |-> << >>]
        ELSE IF symbol[1] \in Sigils
        THEN [kind |-> "return",
              v |-> matches(Literal(<< "$" >>) \o compile(Tail(symbol))
                              \o Literal(<< " ", "=" >>) \o << Atom(Spaces, "1") >>,
                            document, rule_range.start.line + 1, rule_range.end.line + 1, 1)]
        ELSE [kind |-> "return",
              v |-> matches(WordBoundary \o Literal(<< "r", "u", "l", "e", " " >>)
                              \o compile(symbol) \o WordBoundary,
                            document, 1, Len(document), 5)]

\* symbol.replace("*", ".*?")
RECURSIVE replace_wildcard(_)
replace_wildcard(symbol) ==
    IF symbol = << >> THEN << >>
    ELSE (IF symbol[1] = "*" THEN << ".", "*", "?" >> ELSE << symbol[1] >>)
           \o replace_wildcard(Tail(symbol))

\* the references without the line of the declaration when the client asks
\* for includeDeclaration = false
provide_reference_results_HonoursFlag(document, pos, includeDeclaration) ==
    LET symbol == resolve_symbol(document, pos)
        rule_range == get_rule_range(document, pos)
        all == IF symbol = << >> THEN << >>
               ELSE IF symbol[1] \in Sigils
               THEN matches(<< Atom(Sigils, "1") >> \o compile(Tail(symbol)) \o WordBoundary,
                            document, rule_range.start.line + 1, rule_range.end.line + 1, 1)
               ELSE matches(compile(symbol) \o WordBoundary, document, 1, Len(document), 0)
        declared == { d.range.start : d \in { provide_definition_results(document, pos).v[i] :
                                                i \in DOMAIN provide_definition_results(document, pos).v } }
    IN  [kind |-> "return",
         v |-> IF includeDeclaration = "false"
               THEN SelectSeq(all, LAMBDA loc : loc.range.start \notin declared)
               ELSE all]

\* YaraLanguageServer.provide_reference once the document is read;
\* params["context"]["includeDeclaration"] is "true", "false" or "absent"
provide_reference_results(document, pos, includeDeclaration) ==
    LET resolved == resolve_symbol(document, pos)
        wildcard_found == \E i \in DOMAIN resolved : resolved[i] = "*"
        symbol == IF wildcard_found THEN replace_wildcard(resolved) ELSE resolved
        rule_range == get_rule_range(document, pos)
        first == rule_range.start.line + 1
        last == rule_range.end.line + 1
        strings == { i \in first..last : contains(document[i], << "s", "t", "r", "i", "n", "g", "s", ":" >>) }
        conditions == { i \in first..last : contains(document[i],
                                                  << "c", "o", "n", "d", "i", "t", "i", "o", "n", ":" >>) }
        strings_start == CHOOSE i \in strings : \A j \in strings : i <= j
        strings_end == CHOOSE i \in conditions : \A j \in conditions : i <= j
        pattern == << Atom(Sigils, "1") >> \o compile(Tail(symbol)) \o WordBoundary
    IN  IF resolved = << >> THEN [kind |-> "return", v |-> << >>]
        ELSE IF symbol[1] \in Sigils
        THEN IF wildcard_found
             THEN IF strings = {} \/ conditions = {}
                  THEN [kind |-> "raise", v |-> << >>]
                  ELSE [kind |-> "return",
                        v |-> matches(pattern, document, strings_start, strings_end - 1, 1)]
             ELSE [kind |-> "return", v |-> matches(pattern, document, first, last, 1)]
        ELSE [kind |-> "return",
              v |-> matches(compile(symbol) \o WordBoundary, document, 1, Len(document), 0)]

\* the hover built from the declaration line whatever it holds
provide_hover_results_Unchecked(document, pos) ==
    LET definitions == provide_definition_results(document, pos)
    IN  IF definitions.kind = "raise" THEN [kind |-> "raise", v |-> << >>]
        ELSE IF Len(definitions.v) > 0
        THEN LET words == split(document[definitions.v[1].range.start.line + 1],
                                << " ", "=", " " >>)
             IN  IF Len(words) > 1 THEN [kind |-> "return", v |-> << words[2] >>]
                 ELSE [kind |-> "raise", v |-> << >>]
        ELSE [kind |-> "return", v |-> << >>]

\* YaraLanguageServer.provide_hover once the document is read: v is << >> for
\* None and the content of the Hover otherwise
provide_hover_results(document, pos) ==
    LET definitions == provide_definition_results(document, pos)
    IN  IF definitions.kind = "raise" THEN [kind |-> "raise", v |-> << >>]
        ELSE IF Len(definitions.v) > 0
        THEN LET words == split(document[definitions.v[1].range.start.line + 1],
                                << " ", "=", " " >>)
             IN  IF Len(words) > 1 THEN [kind |-> "return", v |-> << words[2] >>]
                 ELSE [kind |-> "return", v |-> << >>]
        ELSE [kind |-> "return", v |-> << >>]

\* ------------------------------------------------------- the module schema
\* modules = json.loads(SCHEMA.read_text()): each path of names leads to a
\* dictionary (its keys in file order), a list of dictionary keys, or a string
\* naming the kind of the member
modules ==
    [path \in { << >>, << "cuckoo" >>, << "pe" >> } |->
        [type |-> "dict",
         keys |-> CASE path = << >> -> << "cuckoo", "pe" >>
                    [] path = << "cuckoo" >> -> << "network", "registry", "filesystem", "sync" >>
                    [] path = << "pe" >> -> << "is_dll", "machine", "MACHINE_I386", "version_info" >>,
         value |-> ""]]
    @@ [path \in { << "cuckoo", k >> : k \in {"network", "registry", "filesystem", "sync"} } |->
          [type |-> "dict", keys |-> << "find" >>, value |-> ""]]
    @@ [path \in { << "cuckoo", k, "find" >> : k \in {"network", "registry", "filesystem", "sync"} } |->
          [type |-> "str", keys |-> << >>, value |-> "function"]]
    @@ (<< "pe", "is_dll" >> :> [type |-> "str", keys |-> << >>, value |-> "function"])
    @@ (<< "pe", "machine" >> :> [type |-> "str", keys |-> << >>, value |-> "property"])
    @@ (<< "pe", "MACHINE_I386" >> :> [type |-> "str", keys |-> << >>, value |-> "enum"])
    @@ (<< "pe", "version_info" >> :>
          [type |-> "list", keys |-> << "CompanyName", "FileVersion" >>, value |-> ""])

\* str(k).startswith(symbol) for the names of the schema and what a user has
\* typed of them
startswith(k, symbol) ==
    \/ symbol = ""
    \/ symbol = k
    \/ << symbol, k >> \in { << "is", "is_dll" >>, << "ma", "machine" >>, << "c", "cuckoo" >>,
                            << "p", "pe" >> }

\* lsp.CompletionItem(label, kind, detail=detail, insertText=insertText): a
\* text is the sequence of the pieces it is formatted from, the detail the
\* sequence of the texts joined by the trigger character
CompletionItem(label, kind, detail, insertText) ==
    [label |-> label, kind |-> kind, insertText |-> insertText, detail |-> detail]

\* YaraLanguageServer.provide_code_completion from `symbols = symbol.split(trigger)'
\* on: the items for the dotted path typed before the trigger character
provide_code_completion_results(symbols) ==
    LET last == Len(symbols)
        parents == [i \in 1..last |-> SubSeq(symbols, 1, i - 1)]
        names == [i \in 1..last |-> << symbols[i] >>]
        before == [i \in 1..(last - 1) |-> << symbols[i] >>]
        schema == parents[last]
        possible_terms ==
            SelectSeq(modules[schema].keys, LAMBDA k : startswith(k, symbols[last]))
        items(term) ==
            LET completion_items == modules[schema \o << term >>]
                item(label, item_type) ==
                    CASE item_type = "enum" ->
                           CompletionItem(label, ENUM, before \o << << label >> >>, << label >>)
                      [] item_type = "property" ->
                           CompletionItem(label, PROPERTY, before \o << << label >> >>, << label >>)
                      [] item_type = "function" ->
                           CompletionItem(label, FUNCTION, before \o << << label, "()" >> >>,
                                          << label, "()" >>)
                      [] OTHER ->
                           CompletionItem(label, CLASS, names \o << << label >> >>, << label >>)
            IN  CASE completion_items.type = "str" ->
                       << item(term, completion_items.value) >>
                  [] completion_items.type = "list" ->
                       [i \in DOMAIN completion_items.keys |->
                          CompletionItem(completion_items.keys[i], INTERFACE,
                                         before \o << << term, "[\"", completion_items.keys[i], "\"]" >> >>,
                                         << term, "[\"", completion_items.keys[i], "\"]" >>)]
                  [] completion_items.type = "dict" ->
                       [i \in DOMAIN completion_items.keys |->
                          item(completion_items.keys[i],
                               modules[schema \o << term, completion_items.keys[i] >>].value)]
        RECURSIVE results(_)
        results(n) == IF n = 0 THEN << >> ELSE results(n - 1) \o items(possible_terms[n])
    IN  IF \E i \in 1..last : parents[i] \notin DOMAIN modules
        THEN [kind |-> "raise", v |-> << >>]
        ELSE [kind |-> "return", v |-> results(Len(possible_terms))]

\* ------------------------------------------------------ error conversion
\* isinstance(exception, classes): the class of the exception or one of its
\* bases is among `classes' (UnboundLocalError is a NameError,
\* NotImplementedError a RuntimeError, everything an Exception)
isinstance(exception, classes) ==
    \/ exception.class \in classes
    \/ exception.class = "UnboundLocalError" /\ "NameError" \in classes
    \/ exception.class = "NotImplementedError" /\ "RuntimeError" \in classes
    \/ "Exception" \in classes

\* the conversion that takes every error of the server for an internal one
convert_exception_InternalFirst(exception) ==
    IF exception.args = << >> THEN [kind |-> "raise", code |-> 0, message |-> "", data |-> "None"]
    ELSE [kind |-> "return",
          code |-> IF isinstance(exception, {"RuntimeError", "CodeCompletionError",
                                             "DefinitionError", "DiagnosticError", "FormatError",
                                             "HighlightError", "HoverError", "NoDependencyFound",
                                             "RenameError", "SymbolReferenceError", "ServerExit"})
                   THEN INTERNAL_ERROR
                   ELSE IF isinstance(exception, {"AttributeError"}) THEN INVALID_PARAMS
                   ELSE IF isinstance(exception, {"NameError"}) THEN METHOD_NOT_FOUND
                   ELSE UNKNOWN_ERROR_CODE,
          message |-> exception.args[1],
          data |-> "None"]

\* ResponseError.convert_exception: exception.args[0] fails with IndexError
\* for an exception constructed without arguments
convert_exception(exception) ==
    IF exception.args = << >> THEN [kind |-> "raise", code |-> 0, message |-> "", data |-> "None"]
    ELSE [kind |-> "return",
          code |-> IF isinstance(exception, {"AttributeError"}) THEN INVALID_PARAMS
                   ELSE IF isinstance(exception, {"NameError"}) THEN METHOD_NOT_FOUND
                   ELSE IF isinstance(exception, {"ServerExit"}) THEN SERVER_ERROR_END
                   ELSE IF isinstance(exception, {"RuntimeError", "CodeCompletionError",
                                                  "DefinitionError", "DiagnosticError",
                                                  "FormatError", "HighlightError", "HoverError",
                                                  "NoDependencyFound", "RenameError",
                                                  "SymbolReferenceError"})
                   THEN INTERNAL_ERROR
                   ELSE UNKNOWN_ERROR_CODE,
          message |-> exception.args[1],
          data |-> "None"]

\* ------------------------------------------------- functions on their own
\* the arguments the functions are called with
DocURIs == {"u1", "u0"}
OverlayTexts == {"t1", "t2"}
DirtyTables == UNION { [D -> OverlayTexts] : D \in SUBSET DocURIs }
FileSystems == UNION { [P -> {"d1"}] : P \in SUBSET {"p1", "p0"} }

get_document_calls ==
    { [fn |-> "_get_document", done |-> FALSE, file_uri |-> u, dirty_files |-> d,
       files |-> f, out |-> [kind |-> "", text |-> "", opened |-> {}]] :
        u \in DocURIs, d \in DirtyTables, f \in FileSystems }

\* initialize requests advertising any set of capabilities
initialize_calls ==
    { [fn |-> "initialize", done |-> FALSE, out |-> Null,
       message |-> Request(IntId(0), "initialize",
                           [NoParams EXCEPT !.root = "A", !.dyn = D])] :
        D \in SUBSET AllClientCaps }

\* message strings handed to write_data as they are
write_data_calls ==
    { [fn |-> "write_data", done |-> FALSE, message |-> str, out |-> << >>] :
        str \in UNION { [1..n -> {"a", "U+00E9"}] : n \in 0..MaxLen } }

\* what provide_reference returns: up to MaxRefs Locations of "u1", or it raises
reference_results ==
    { [kind |-> "raise", v |-> << >>] }
    \cup { [kind |-> "return", v |-> locs] :
             locs \in UNION { [1..n -> { [uri |-> "u1",
                                          range |-> [start |-> << line, 1 >>,
                                                     end |-> << line, 3 >>]] :
                                        line \in 0..1 }] : n \in 0..MaxRefs } }

\* rename requests: the symbol at the position, the new name, the references;
\* without a symbol provide_reference returns []
provide_rename_calls ==
    { c \in { [fn |-> "provide_rename", done |-> FALSE, old_text |-> old,
               new_text |-> new, refs |-> refs,
               out |-> [kind |-> "", changes |-> << >>]] :
                old \in {"None", "$a", "$a*"}, new \in {"None", "", "$a", "$b"},
                refs \in reference_results } :
        c.old_text = "None" => c.refs.v = << >> }

\* a rule file written one statement per line: a rule with two strings (the
\* second one with a tab after `=') and a condition, followed by the header
\* of a rule of the same name and a string of that rule named as the first
RuleFile ==
    << << "r", "u", "l", "e", " ", "r" >>,
       << "s", "t", "r", "i", "n", "g", "s", ":" >>,
       << "$", "a", " ", "=", " ", "x" >>,
       << "$", "a", "b", " ", "=", "TAB", "x" >>,
       << "c", "o", "n", "d", "i", "t", "i", "o", "n", ":" >>,
       << "#", "a", " ", "o", "r", " ", "$", "a", "*" >>,
       << "}" >>,
       << "r", "u", "l", "e", " ", "r" >>,
       << "$", "a", " ", "=", " ", "x" >> >>

\* the documents: the lines of RuleFile a user has typed so far, in their
\* order; the string of the second rule is typed once the first rule is closed
\* and the second one begun
Documents ==
    { [i \in 1..Cardinality(S) |->
         RuleFile[CHOOSE x \in S : Cardinality({ y \in S : y < x }) = i - 1]] :
        S \in { T \in SUBSET (DOMAIN RuleFile) :
                  /\ Cardinality(T) <= MaxLines
                  /\ 9 \in T => {7, 8} \subseteq T } }

\* params["position"]: any line of the document or the one after its end
Positions(document) ==
    { [line |-> l, char |-> c] : l \in 0..Len(document), c \in 0..MaxCol }

\* params["context"]["includeDeclaration"]
IncludeDeclaration == {"true", "false", "absent"}

\* completion requests after a dotted path of up to MaxDepth names that does
\* not lead through a member without children
provide_code_completion_calls ==
    { c \in { [fn |-> "provide_code_completion", done |-> FALSE, symbols |-> symbols,
               out |-> [kind |-> "", v |-> << >>]] :
                symbols \in UNION { [1..n -> {"", "cuckoo", "pe", "network", "is_dll", "is",
                                               "version_info", "zz"}] : n \in 1..MaxDepth } } :
        \A i \in 1..(Len(c.symbols) - 1) :
           SubSeq(c.symbols, 1, i) \in DOMAIN modules => modules[SubSeq(c.symbols, 1, i)].type = "dict" }

\* exceptions of every class the server raises or meets, constructed with up
\* to MaxArgs arguments
convert_exception_calls ==
    { [fn |-> "convert_exception", done |-> FALSE,
       exception |-> [class |-> class, args |-> args],
       out |-> [kind |-> "", code |-> 0, message |-> "", data |-> ""]] :
        class \in {"Exception", "AttributeError", "NameError", "UnboundLocalError", "ServerExit",
                   "RuntimeError", "NotImplementedError", "CodeCompletionError",
                   "DefinitionError", "DiagnosticError", "FormatError", "HighlightError",
                   "HoverError", "NoDependencyFound", "RenameError", "SymbolReferenceError",
                   "KeyError", "TypeError"},
        args \in UNION { [1..n -> {"m1", "m2"}] : n \in 0..MaxArgs } }

\* $/cancelRequest notifications handled before and after `initialized', with
\* any tasks registered in self.running_tasks and any dirty files
event_cancel_calls ==
    { [fn |-> "event_cancel", done |-> FALSE, message |-> m, locals |-> l, out |-> l] :
        m \in { Notify("$/cancelRequest", [NoParams EXCEPT !.ref = id]) : id \in CancelIds },
        l \in { [Locals EXCEPT !.has_started = started, !.dirty_files = dirty,
                               !.running_tasks = tasks] :
                  started \in BOOLEAN,
                  dirty \in { d \in DirtyTables : DOMAIN d \subseteq {"u1"} },
                  tasks \in UNION { [ids -> {"running", "done"}] : ids \in SUBSET (0..MaxId) } } }

InitFunctions ==
    /\ InitServer
    /\ has_plyara = FALSE
    /\ wire = NoWire
    /\ \/ call \in get_document_calls /\ has_yara = FALSE
       \/ call \in initialize_calls /\ has_yara \in BOOLEAN
       \/ call \in write_data_calls /\ has_yara = FALSE
       \/ call \in provide_rename_calls /\ has_yara = FALSE
       \/ call \in provide_code_completion_calls /\ has_yara = FALSE
       \/ call \in convert_exception_calls /\ has_yara = FALSE
       \/ call \in event_cancel_calls /\ has_yara = FALSE

\* self._get_document(file_uri, dirty_files)
Call_get_document ==
    /\ call.fn = "_get_document" /\ ~call.done
    /\ call' = [call EXCEPT !.done = TRUE,
                            !.out = _get_document(call.file_uri, call.dirty_files, call.files)]
    /\ UNCHANGED << server_vars, wire, clients >>

\* self.initialize(message, has_started=False): the response it returns
Call_initialize ==
    /\ call.fn = "initialize" /\ ~call.done
    /\ \E o \in initialize(call.message, FALSE) :
         call' = [call EXCEPT !.done = TRUE, !.out = o.value]
    /\ UNCHANGED << server_vars, wire, clients >>

\* self.write_data(message, writer): the bytes the writer gets
Call_write_data ==
    /\ call.fn = "write_data" /\ ~call.done
    /\ call' = [call EXCEPT !.done = TRUE, !.out = write_data(call.message)[1]]
    /\ UNCHANGED << server_vars, wire, clients >>

\* self.provide_rename(message, True)
Call_provide_rename ==
    /\ call.fn = "provide_rename" /\ ~call.done
    /\ call' = [call EXCEPT !.done = TRUE,
                            !.out = provide_rename_results(call.old_text, call.new_text,
                                                           call.refs)]
    /\ UNCHANGED << server_vars, wire, clients >>

\* self.provide_definition(message, True)
Call_provide_definition ==
    /\ call.fn = "provide_definition" /\ ~call.done
    /\ call' = [call EXCEPT !.done = TRUE,
                            !.out = provide_definition_results(call.document, call.pos)]
    /\ UNCHANGED << server_vars, wire, clients >>

\* self.provide_reference(message, True), once for each includeDeclaration
Call_provide_reference ==
    /\ call.fn = "provide_reference" /\ ~call.done
    /\ call' = [call EXCEPT !.done = TRUE,
                            !.outs = [f \in IncludeDeclaration |->
                                        provide_reference_results(call.document, call.pos, f)]]
    /\ UNCHANGED << server_vars, wire, clients >>

\* self.provide_hover(message, True)
Call_provide_hover ==
    /\ call.fn = "provide_hover" /\ ~call.done
    /\ call' = [call EXCEPT !.done = TRUE,
                            !.out = provide_hover_results(call.document, call.pos)]
    /\ UNCHANGED << server_vars, wire, clients >>

\* self.provide_code_completion(message, True)
Call_provide_code_completion ==
    /\ call.fn = "provide_code_completion" /\ ~call.done
    /\ call' = [call EXCEPT !.done = TRUE,
                            !.out = provide_code_completion_results(call.symbols)]
    /\ UNCHANGED << server_vars, wire, clients >>

\* ResponseError.convert_exception(exception)
Call_convert_exception ==
    /\ call.fn = "convert_exception" /\ ~call.done
    /\ call' = [call EXCEPT !.done = TRUE, !.out = convert_exception(call.exception)]
    /\ UNCHANGED << server_vars, wire, clients >>

\* self.event_cancel(has_started, message=message, ...)
Call_event_cancel ==
    /\ call.fn = "event_cancel" /\ ~call.done
    /\ call' = [call EXCEPT !.done = TRUE, !.out = event_cancel(call.locals, call.message)]
    /\ UNCHANGED << server_vars, wire, clients >>

NextFunctions ==
    \/ Call_get_document
    \/ Call_initialize
    \/ Call_write_data
    \/ Call_provide_rename
    \/ Call_provide_code_completion
    \/ Call_convert_exception
    \/ Call_event_cancel

SpecFunctions == InitFunctions /\ [][NextFunctions]_vars

\* the symbol providers applied to every document and cursor position
InitSymbols ==
    /\ InitServer
    /\ has_yara = FALSE
    /\ has_plyara = FALSE
    /\ wire = NoWire
    /\ \E document \in Documents : \E pos \in Positions(document) :
         \E fn \in {"provide_definition", "provide_reference", "provide_hover"} :
           call = [fn |-> fn, done |-> FALSE, document |-> document, pos |-> pos,
                   out |-> [kind |-> "", v |-> << >>],
                   outs |-> [f \in IncludeDeclaration |-> [kind |-> "", v |-> << >>]]]

NextSymbols ==
    \/ Call_provide_definition
    \/ Call_provide_reference
    \/ Call_provide_hover

SpecSymbols == InitSymbols /\ [][NextSymbols]_vars

\* ------------------------------------------- several connections, one server
\* The connections of one YaraLanguageServer: every handle_client task keeps
\* its own has_started, dirty_files and config, and all of them share the
\* attributes of the server object (num_clients, workspace, hover_langs) and
\* the event loop with its exception handler.

\* the messages a session is made of
SessionNotifications ==
    { m \in ClientNotifications : m.method \notin {"$/cancelRequest", "foo/note"} }
SessionRequests == { Request(IntId(0), "initialize", p) : p \in InitializeParams }

\* what read_request can raise instead of returning a message: the peer reset
\* the connection, or the header is no "Content-Length: <n>" pair
ReadFailures == {"ConnectionResetError", "ValueError"}

\* what no connection's step changes
session_vars ==
    << pc, has_started, dirty_files, config, writer_closed, exc, has_yara, has_plyara,
       cur, started_at, outcome, returned, own, sent, init_seen, shutdown_seen, raised,
       warned, running_tasks, task, call, wire >>

\* the handle_client tasks inside their loop
Running == { c \in Clients : clients[c].at = "running" }

\* the locals of connection c at the top of a turn of its loop
turn(c) == loop_head([clients[c] EXCEPT !.sent = << >>, !.logged = << >>, !.raise = ""])

\* the locals after a turn: an exception the except clauses catch is reported
\* to the client, any other one ends the task with it
settle(l) ==
    [l EXCEPT !.sent = @ \o caught(l.raise),
              !.logged = @ \o caught_log(l.raise),
              !.raise = IF after(l.raise) = "read" THEN "" ELSE l.raise,
              !.at = IF after(l.raise) = "read" THEN "running" ELSE "raised"]

\* run_server: the server accepts connections until the task of serve_forever
\* is cancelled, which the exception handler does for a ServerExit
serving == \A c \in Clients : ~(clients[c].at = "reported" /\ clients[c].raise = "ServerExit")

\* asyncio.start_server accepts a connection and starts handle_client for it
Accept(c) ==
    /\ serving
    /\ clients[c].at = "none"
    /\ clients' = [clients EXCEPT ![c] = [NoClient EXCEPT !.at = "running"]]
    /\ num_clients' = num_clients + 1
    /\ UNCHANGED << workspace, hover_langs, logged >>
    /\ UNCHANGED session_vars

\* reader.at_eof(): the client has closed its end and the handler returns
AtEof(c) ==
    /\ clients[c].at = "running"
    /\ clients' = [clients EXCEPT ![c] = [@ EXCEPT !.at = "closed", !.sent = << >>,
                     !.logged = << LogEntry("info", "Client has closed", NoId) >>]]
    /\ num_clients' = num_clients - 1
    /\ UNCHANGED << workspace, hover_langs, logged >>
    /\ UNCHANGED session_vars

\* one turn of the loop of connection c for a notification
HandleNotification(c, m) ==
    /\ clients[c].at = "running"
    /\ \E d \in provide_diagnostic :
         clients' = [clients EXCEPT ![c] = settle(route_notification(turn(c), m, d))]
    /\ UNCHANGED << num_clients, workspace, hover_langs, logged >>
    /\ UNCHANGED session_vars

\* one turn of the loop of connection c for an initialize request, with
\* execute_method sending the response
HandleRequest(c, m) ==
    /\ clients[c].at = "running"
    /\ \E o \in initialize(m, clients[c].has_started) :
         /\ clients' = [clients EXCEPT ![c] = [turn(c) EXCEPT !.sent = completed(m, o.value)]]
         /\ workspace' = o.workspace
         /\ hover_langs' = o.hover_langs
    /\ UNCHANGED << num_clients, logged >>
    /\ UNCHANGED session_vars

\* read_request raises: nothing in handle_client catches it
ReadRequestFails(c, e) ==
    /\ clients[c].at = "running"
    /\ clients' = [clients EXCEPT ![c] = settle([turn(c) EXCEPT !.raise = e])]
    /\ UNCHANGED << num_clients, workspace, hover_langs, logged >>
    /\ UNCHANGED session_vars

\* the exception handler that cancels its own future only
_exc_handler_OwnTaskOnly(c) ==
    /\ clients[c].at = "raised"
    /\ IF clients[c].raise = "ServerExit"
       THEN /\ logged' = << LogEntry("info", "ServerExit", NoId) >>
            /\ num_clients' = 0
            /\ clients' = [clients EXCEPT ![c].at = "reported"]
       ELSE IF clients[c].raise = "ConnectionResetError"
       THEN /\ logged' = << LogEntry("error", "Client disconnected unexpectedly", NoId) >>
            /\ num_clients' = num_clients - 1
            /\ clients' = [clients EXCEPT ![c].at = "reported"]
       ELSE /\ logged' = << LogEntry("critical", "Unknown exception encountered", NoId) >>
            /\ num_clients' = num_clients
            /\ clients' = [clients EXCEPT ![c].at = "reported"]
    /\ UNCHANGED << workspace, hover_langs >>
    /\ UNCHANGED session_vars

\* LanguageServer._exc_handler, called by the loop for the exception a
\* handle_client task ended with
_exc_handler(c) ==
    /\ clients[c].at = "raised"
    /\ IF clients[c].raise = "ServerExit"
       THEN /\ logged' = << LogEntry("info", "ServerExit", NoId) >>
            /\ num_clients' = 0
            /\ clients' = [b \in Clients |->
                             IF b = c THEN [clients[b] EXCEPT !.at = "reported"]
                             ELSE IF clients[b].at = "running"
                             THEN [clients[b] EXCEPT !.at = "cancelled"]
                             ELSE clients[b]]
       ELSE IF clients[c].raise = "ConnectionResetError"
       THEN /\ logged' = << LogEntry("error", "Client disconnected unexpectedly", NoId) >>
            /\ num_clients' = num_clients - 1
            /\ clients' = [clients EXCEPT ![c].at = "reported"]
       ELSE /\ logged' = << LogEntry("critical", "Unknown exception encountered", NoId) >>
            /\ num_clients' = num_clients
            /\ clients' = [clients EXCEPT ![c].at = "reported"]
    /\ UNCHANGED << workspace, hover_langs >>
    /\ UNCHANGED session_vars

NextClients ==
    \/ \E c \in Clients : Accept(c)
    \/ \E c \in Clients : AtEof(c)
    \/ \E c \in Clients : \E m \in SessionNotifications : HandleNotification(c, m)
    \/ \E c \in Clients : \E m \in SessionRequests : HandleRequest(c, m)
    \/ \E c \in Clients : \E e \in ReadFailures : ReadRequestFails(c, e)
    \/ \E c \in Clients : _exc_handler(c)

SpecClients == Init /\ [][NextClients]_vars

\* ================================================================== claims
\* cur has been dealt with: handle_client is not inside execute_method
Settled == pc \in {"read", "exited", "dead"}

\* the messages execute_method / handle_client wrote after cur's handler ended
Scheduled == SubSeq(sent, own + 1, Len(sent))

ResponsesTo(id) == { i \in DOMAIN sent : sent[i].type = "response" /\ sent[i].id = id }
ErrorNotes ==
    { i \in DOMAIN sent : sent[i].type = "notification" /\ sent[i].method = "window/showMessage" }

\* a feature request from a client that numbers its requests 0..MaxId
FeatureRequest == cur.hasid /\ cur.method \in FeatureMethods /\ cur.id \in GoodIds

\* C1: a feature request read before `initialized` is answered with a null or
\* empty result for its id, no showMessage notification is sent and
\* handle_client goes on
C1_RejectedBeforeInitialized ==
    (FeatureRequest /\ ~started_at /\ Settled) =>
        /\ pc = "read"
        /\ \E i \in ResponsesTo(cur.id) : sent[i].result \in {Null, EmptyList}
        /\ ErrorNotes = {}

\* C2: an exit notification always ends the connection: the writer is closed
\* and ServerExit is raised, whatever was received before
C2_ExitAlwaysTerminates ==
    (~cur.hasid /\ cur.method = "exit") =>
        (pc = "exited" /\ writer_closed /\ exc = "ServerExit")

\* C2 (amended): an exit notification read after `initialized` always ends the
\* connection, with or without a shutdown request before it
C2_ExitTerminatesStarted ==
    (~cur.hasid /\ cur.method = "exit" /\ started_at) =>
        (pc = "exited" /\ writer_closed /\ exc = "ServerExit")

C2_Witness ==
    /\ ~cur.hasid /\ cur.method = "exit" /\ started_at
    /\ ~shutdown_seen /\ pc = "exited"

\* C3: has_started is true only after an initialize request followed by an
\* `initialized` notification; an initialize request alone returns the
\* capabilities and leaves the connection un-started
C3_StartedOnlyAfterInitialize ==
    /\ has_started => init_seen
    /\ (cur.hasid /\ cur.method = "initialize" /\ outcome = "return" /\ ~started_at) =>
          (~has_started /\ returned.tag = "caps")

\* C4: once a shutdown request has been handled on an initialized connection,
\* a later feature request gets a null or empty result
C4_RejectedAfterShutdown ==
    (FeatureRequest /\ shutdown_seen /\ Settled) =>
        /\ pc = "read"
        /\ \E i \in ResponsesTo(cur.id) : sent[i].result \in {Null, EmptyList}

\* the SessionPhase the connection is in
Phase ==
    IF pc = "idle" THEN 0
    ELSE IF pc \in {"closed", "exited", "dead"} THEN 4
    ELSE IF shutdown_seen THEN 3
    ELSE IF has_started THEN 2
    ELSE 1

\* C5: once has_started is true it stays true, and no step takes the connection
\* back to an earlier phase
C5_PhaseMonotonic ==
    [][(has_started => has_started') /\ Phase' >= Phase]_vars

C5_Witness ==
    has_started /\ started_at /\ pc = "read" /\ cur.method = "foo/note"

\* C6: an initialize request after the first one changes neither the workspace
\* root nor the hover formats
C6_OnlyFirstInitialize ==
    [][(pc = "exec" /\ cur.method = "initialize" /\ init_seen) =>
          (workspace' = workspace /\ hover_langs' = hover_langs)]_vars

TimeoutWarnings == { i \in DOMAIN logged : logged[i].what = "timed out" }

\* C7: a request whose handler times out gets a null response for its id as the
\* last message written, exactly one timeout warning naming the id is logged,
\* nothing is raised and handle_client is back reading
C7_TimeoutNullResponse ==
    (outcome = "timeout") =>
        /\ pc = "read" /\ exc = ""
        /\ Scheduled = << Response(cur.id, Null) >>
        /\ Cardinality(TimeoutWarnings) = 1
        /\ \A i \in TimeoutWarnings : logged[i] = LogEntry("warning", "timed out", cur.id)

C7_Witness ==
    outcome = "timeout" /\ cur.method = "textDocument/hover" /\ cur.id = IntId(1) /\ started_at

C9_ResponseCarriesResult ==
    (outcome = "return") =>
        Scheduled = IF cur.method \in {"shutdown", "exit"}
                    THEN << >>
                    ELSE << Response(cur.id, returned) >>

C9_Witness ==
    /\ outcome = "return" /\ cur.method = "textDocument/hover"
    /\ returned = Value("hover") /\ cur.id = IntId(1)

\* C10: every request with an id has a response with that id once
\* handle_client is done with it, whether its handler returned, timed out or
\* raised (shutdown, which answers for itself, is left aside)
C10_EveryRequestAnswered ==
    (cur.hasid /\ cur.method # "shutdown" /\ Settled) => ResponsesTo(cur.id) # {}

\* C11: _get_document returns the dirty text of a URI that is in the dirty
\* files, opening no file; for a URI that is not, it opens the file at the path
\* decoded from the URI and returns that file's contents
C11_OverlayPreferred ==
    (call.fn = "_get_document" /\ call.done) =>
        IF call.file_uri \in DOMAIN call.dirty_files
        THEN /\ call.out.kind = "return"
             /\ call.out.text = call.dirty_files[call.file_uri]
             /\ call.out.opened = {}
        ELSE /\ call.out.opened = {parse_uri(call.file_uri)}
             /\ parse_uri(call.file_uri) \in DOMAIN call.files =>
                   /\ call.out.kind = "return"
                   /\ call.out.text = call.files[parse_uri(call.file_uri)]

C11_Witness ==
    /\ call.fn = "_get_document" /\ call.done
    /\ call.file_uri = "u1" /\ call.file_uri \in DOMAIN call.dirty_files
    /\ "p1" \in DOMAIN call.files
    /\ call.out.text = "t2"

\* handle_client takes the notification cur' from a client that has sent
\* `initialized'
Notified(method) ==
    pc = "read" /\ has_started /\ pc' # "closed" /\ ~cur'.hasid /\ cur'.method = method

\* C12: on an initialized connection every didChange sets the dirty entry of
\* its URI to the full text it carries, every didClose and didSave deletes the
\* entry, and no other step but the handling of shutdown changes the dirty files
C12_DirtyTracksLastChange ==
    [][/\ Notified("textDocument/didChange") =>
             dirty_files' = With(dirty_files, cur'.p.uri, cur'.p.text)
       /\ (Notified("textDocument/didClose") \/ Notified("textDocument/didSave")) =>
             dirty_files' = Without(dirty_files, cur'.p.uri)
       /\ ( /\ ~Notified("textDocument/didChange")
            /\ ~Notified("textDocument/didClose")
            /\ ~Notified("textDocument/didSave")
            /\ ~(pc = "exec" /\ cur.method = "shutdown") ) =>
             dirty_files' = dirty_files]_vars

\* the error kinds of the providers
ProviderErrors == Reported \cup {"FormatError"}

\* C13: when the handler of a request raises one of the provider errors,
\* handle_client sends one window/showMessage notification of type ERROR and
\* goes on reading
C13_ProviderErrorsReported ==
    (cur.hasid /\ outcome = "raise" /\ raised \in ProviderErrors) =>
        /\ pc = "read" /\ exc = ""
        /\ Scheduled = << Notification("window/showMessage", ERROR, "") >>

\* the error kind of each provider that reads a document
OwnError ==
    [method \in { "textDocument/completion", "textDocument/definition",
                  "textDocument/hover", "textDocument/references",
                  "textDocument/rename", "textDocument/formatting" } |->
        CASE method = "textDocument/completion" -> "CodeCompletionError"
          [] method = "textDocument/definition" -> "DefinitionError"
          [] method = "textDocument/hover" -> "HoverError"
          [] method = "textDocument/references" -> "SymbolReferenceError"
          [] method = "textDocument/rename" -> "RenameError"
          [] method = "textDocument/formatting" -> "FormatError"]

\* C14: a request to a provider that reads a document, for a URI that is
\* neither dirty nor an existing file, ends in the provider's own error, which
\* is reported by a notification while handle_client goes on reading
C14_MissingDocumentReported ==
    ( /\ cur.hasid /\ cur.method \in DOMAIN OwnError /\ cur.id \in GoodIds
      /\ started_at /\ ~found(cur) /\ Settled /\ outcome # "timeout"
      /\ (cur.method = "textDocument/formatting" => has_plyara) ) =>
        /\ raised = OwnError[cur.method]
        /\ pc = "read"
        /\ Scheduled = << Notification("window/showMessage", ERROR, "") >>

\* the message in cur was answered by the warning that yara is not installed
CompilerWarning ==
    /\ ~has_yara /\ raised = "NoDependencyFound"
    /\ cur.method \in {"textDocument/didSave", "workspace/executeCommand"}
    /\ \E i \in DOMAIN sent : sent[i] = Notification("window/showMessage", WARNING, "")

\* C15: the warning that yara is not installed is sent at most once: no step
\* sends it after it has been sent, and handle_client goes on reading
C15_WarnedOnce ==
    [][(warned => ~CompilerWarning') /\ (CompilerWarning' => pc' = "read")]_vars

\* the server capability answering each client capability
ProviderOf ==
    [c \in AllClientCaps |->
        CASE c = "completion" -> "completionProvider"
          [] c = "definition" -> "definitionProvider"
          [] c = "hover" -> "hoverProvider"
          [] c = "executeCommand" -> "executeCommandProvider"
          [] c = "formatting" -> "documentFormattingProvider"
          [] c = "references" -> "referencesProvider"
          [] c = "rename" -> "renameProvider"
          [] c = "synchronization" -> "textDocumentSync"]

\* C16: the capabilities initialize returns hold a provider exactly for the
\* client capabilities with dynamicRegistration set, the two compile commands
\* exactly when executeCommand is among them and yara is installed, and
\* nothing else
C16_CapabilitiesNegotiated ==
    (call.fn = "initialize" /\ call.done) =>
        /\ call.out.tag = "caps"
        /\ call.out.v =
              { ProviderOf[c] : c \in call.message.p.dyn }
              \cup (IF has_yara /\ "executeCommand" \in call.message.p.dyn
                    THEN {"yara.CompileRule", "yara.CompileAllRules"} ELSE {})

C16_Witness ==
    /\ call.fn = "initialize" /\ call.done /\ ~has_yara
    /\ call.message.p.dyn = {"executeCommand", "rename"}
    /\ call.out = Caps({"executeCommandProvider", "renameProvider"})

\* the bytes of the frames of the messages `texts', one after the other
RECURSIVE Frames(_)
Frames(texts) ==
    LET RECURSIVE Flat(_)
        Flat(writes) == IF writes = << >> THEN << >> ELSE Head(writes) \o Flat(Tail(writes))
    IN  IF texts = << >> THEN << >>
        ELSE Flat(write_data(dumps(Head(texts)))) \o Frames(Tail(texts))

\* C17: read_request never fails on what write_data wrote; the requests it has
\* returned are the messages written, in the order written, and it has
\* consumed exactly the bytes of their frames
C17_RoundTrip ==
    /\ ~wire.failed
    /\ Len(wire.decoded) <= Len(wire.written)
    /\ wire.decoded = SubSeq(wire.written, 1, Len(wire.decoded))
    /\ wire.pos = Len(Frames(wire.decoded))

C17_Witness ==
    /\ wire.decoded = << << "U+00E9", "a" >>, << "a" >> >>
    /\ wire.pos = Len(wire.out)

\* C18: the number write_data puts after "Content-Length: " is the number of
\* bytes it writes after the separator
C18_ContentLengthIsByteCount ==
    (call.fn = "write_data" /\ call.done) =>
        LET eol1 == EOL(call.out, 0)
            eol2 == EOL(call.out, eol1)
        IN  int(SubSeq(call.out, 3, eol1 - 1)) = Len(call.out) - eol2

\* C19: whatever tasks write to the transport and however their awaits
\* interleave, the bytes written are the whole frames of the messages written,
\* one after the other
C19_WholeFrames == wire.out = Frames(wire.written)

C19_Witness ==
    /\ \A w \in Writers : wire.task[w].at = "drain"
    /\ Len(wire.written) = 2 /\ wire.written[1] # wire.written[2]
    /\ wire.pos = 0

\* C20: renaming a symbol that is no wildcard to a different, non-empty name
\* returns one TextEdit per Location provide_reference returns, in the same
\* order, with that Location's range and the new name as newText
C20_RenameFollowsReferences ==
    ( /\ call.fn = "provide_rename" /\ call.done
      /\ call.old_text \notin {"None", "$a*"}
      /\ call.new_text \notin {"None", "", call.old_text}
      /\ call.refs.kind = "return" ) =>
        /\ call.out.kind = "return"
        /\ Len(call.out.changes) = Len(call.refs.v)
        /\ \A i \in DOMAIN call.refs.v :
              /\ call.out.changes[i].range = call.refs.v[i].range
              /\ call.out.changes[i].newText = call.new_text

C20_Witness ==
    /\ call.fn = "provide_rename" /\ call.done
    /\ call.old_text = "$a" /\ call.new_text = "$b"
    /\ Len(call.refs.v) = 2 /\ call.refs.v[1] # call.refs.v[2]
    /\ Len(call.out.changes) = 2

\* C21: a rename whose new name is missing or empty, or equal to the symbol, or
\* whose symbol is a wildcard ending in `*', returns an empty edit set and
\* raises nothing (the references themselves being found without error)
C21_RenameRejected ==
    ( /\ call.fn = "provide_rename" /\ call.done
      /\ call.old_text # "None" /\ call.refs.kind = "return"
      /\ \/ call.new_text \in {"None", ""}
         \/ call.new_text = call.old_text
         \/ call.old_text = "$a*" ) =>
        /\ call.out.kind = "return"
        /\ call.out.changes = << >>

\* the places provide_definition gives for the symbol under the cursor
DeclarationSites ==
    { provide_definition_results(call.document, call.pos).v[i].range.start :
        i \in DOMAIN provide_definition_results(call.document, call.pos).v }

\* C22: the references of a document and position are the same for
\* includeDeclaration true, false and absent, and hold the declaration site of
\* the variable or rule under the cursor
C22_ReferencesIgnoreFlag ==
    (call.fn = "provide_reference" /\ call.done) =>
        /\ \A f, g \in IncludeDeclaration : call.outs[f] = call.outs[g]
        /\ call.outs["absent"].kind = "return" =>
             \A site \in DeclarationSites :
                \E i \in DOMAIN call.outs["absent"].v :
                   call.outs["absent"].v[i].range.start = site

C22_Witness ==
    /\ call.fn = "provide_reference" /\ call.done
    /\ resolve_symbol(call.document, call.pos) = << "#", "a" >>
    /\ DeclarationSites # {}
    /\ Len(call.outs["false"].v) = 3
    /\ call.outs["false"].v[1].range.start \in DeclarationSites

\* C23: the definition provider returns a list of at most one Location for
\* every document and cursor position
C23_AtMostOneDefinition ==
    (call.fn = "provide_definition" /\ call.done) =>
        /\ call.out.kind = "return"
        /\ Len(call.out.v) <= 1

\* the symbol under the cursor of the call and the line of its first definition
HoveredSymbol == resolve_symbol(call.document, call.pos)
DefinitionLine ==
    call.document[provide_definition_results(call.document, call.pos).v[1].range.start.line + 1]

\* C24: hover returns no content and raises nothing when the symbol under the
\* cursor is neither a variable nor the name of a rule of the document, or when
\* the line of its definition holds no " = "
C24_NoHoverWithoutValue ==
    ( /\ call.fn = "provide_hover" /\ call.done
      /\ HoveredSymbol # << >>
      /\ \/ /\ HoveredSymbol[1] \notin Sigils
            /\ \A i \in DOMAIN call.document :
                  ~contains(call.document[i], << "r", "u", "l", "e", " " >> \o HoveredSymbol)
         \/ /\ provide_definition_results(call.document, call.pos).v # << >>
            /\ ~contains(DefinitionLine, << " ", "=", " " >>) ) =>
        call.out = [kind |-> "return", v |-> << >>]

C24_Witness ==
    /\ call.fn = "provide_hover" /\ call.done
    /\ HoveredSymbol = << "$", "a", "b" >>
    /\ provide_definition_results(call.document, call.pos).v # << >>
    /\ ~contains(DefinitionLine, << " ", "=", " " >>)
    /\ call.out.v = << >>

\* the item the schema's declared kind asks for: a method gives METHOD with the
\* snippet `label()', a property PROPERTY, an enum ENUM, anything else CLASS
ItemFor(label, declared) ==
    CASE declared = "function" -> [label |-> label, kind |-> METHOD, insertText |-> << label, "()" >>]
      [] declared = "property" -> [label |-> label, kind |-> PROPERTY, insertText |-> << label >>]
      [] declared = "enum" -> [label |-> label, kind |-> ENUM, insertText |-> << label >>]
      [] OTHER -> [label |-> label, kind |-> CLASS, insertText |-> << label >>]

\* C25: completion after a dotted path that names a node of the module schema
\* returns exactly one item per child of the node, in the schema's order,
\* labelled with the child's name and with the kind and snippet of the child's
\* declared kind; after a list of dictionary keys, one `term["key"]' snippet
\* per key
C25_CompletionFollowsSchema ==
    ( /\ call.fn = "provide_code_completion" /\ call.done
      /\ call.symbols \in DOMAIN modules ) =>
        LET node == modules[call.symbols]
            term == call.symbols[Len(call.symbols)]
        IN  /\ call.out.kind = "return"
            /\ node.type = "dict" =>
                 /\ Len(call.out.v) = Len(node.keys)
                 /\ \A i \in DOMAIN node.keys :
                       [label |-> call.out.v[i].label, kind |-> call.out.v[i].kind,
                        insertText |-> call.out.v[i].insertText]
                         = ItemFor(node.keys[i], modules[call.symbols \o << node.keys[i] >>].value)
            /\ node.type = "list" =>
                 /\ Len(call.out.v) = Len(node.keys)
                 /\ \A i \in DOMAIN node.keys :
                       /\ call.out.v[i].label = node.keys[i]
                       /\ call.out.v[i].insertText = << term, "[\"", node.keys[i], "\"]" >>

\* the code the claim gives each category of exception
ExpectedCode(class) ==
    CASE class = "AttributeError" -> INVALID_PARAMS
      [] class \in {"NameError", "UnboundLocalError"} -> METHOD_NOT_FOUND
      [] class = "ServerExit" -> SERVER_ERROR_END
      [] class \in {"RuntimeError", "NotImplementedError", "CodeCompletionError",
                    "DefinitionError", "DiagnosticError", "FormatError", "HighlightError",
                    "HoverError", "NoDependencyFound", "RenameError", "SymbolReferenceError"} ->
           INTERNAL_ERROR
      [] OTHER -> UNKNOWN_ERROR_CODE

\* C26: convert_exception gives an exception that has a first argument the
\* code of its category, that argument as the message and no data, whatever
\* its other arguments are
C26_CodeByCategory ==
    ( /\ call.fn = "convert_exception" /\ call.done
      /\ call.exception.args # << >> ) =>
        /\ call.out.kind = "return"
        /\ call.out.code = ExpectedCode(call.exception.class)
        /\ call.out.message = call.exception.args[1]
        /\ call.out.data = "None"

C26_Witness ==
    /\ call.fn = "convert_exception" /\ call.done
    /\ call.exception.class = "ServerExit"
    /\ Len(call.exception.args) = 2
    /\ call.out.code = SERVER_ERROR_END

\* C27: while the handler of a request is running, a notification or a request
\* that arrives after it on the same connection can be read and routed
C27_ReadsWhileHandlerRuns ==
    (pc = "exec" /\ task = "running") =>
        /\ ENABLED (\E m \in ClientNotifications : ReceiveNotification(m))
        /\ ENABLED (\E m \in ClientRequests : ReceiveRequest(m))

\* C28: the running-task table holds exactly the id of the request in flight:
\* it is registered before the handler is awaited and removed when the request
\* completes, is cancelled or times out
C28_TableTracksInFlight ==
    DOMAIN running_tasks = IF pc = "exec" /\ task = "running" THEN {cur.id.v} ELSE {}

\* C29: a request that timed out leaves its handler task running or finished,
\* never cancelled
C29_TimedOutTaskSurvives ==
    outcome = "timeout" => task \in {"running", "done"}

\* C30: handling $/cancelRequest cancels no task, sends nothing, raises nothing
\* and leaves the dirty files, has_started and the keys of the running-task
\* table as they were, whether or not a task is registered under the id and
\* whether or not the id is an integer
C30_CancelIsAdvisory ==
    (call.fn = "event_cancel" /\ call.done) =>
        /\ call.out.running_tasks = call.locals.running_tasks
        /\ call.out.sent = << >>
        /\ call.out.raise = ""
        /\ call.out.dirty_files = call.locals.dirty_files
        /\ call.out.has_started = call.locals.has_started
        /\ call.out.writer_closed = call.locals.writer_closed

C30_Witness ==
    /\ call.fn = "event_cancel" /\ call.done
    /\ call.locals.has_started
    /\ call.message.p.ref = IntId(0)
    /\ 0 \in DOMAIN call.locals.running_tasks
    /\ call.locals.running_tasks[0] = "running"
    /\ call.out.running_tasks[0] = "running"
    /\ call.locals.dirty_files # NoDirtyFiles

\* C31: an exit is honoured on an initialized connection only, the writer of
\* that connection is closed by the time its handler ends with ServerExit, and
\* the step in which the loop's exception handler reports the ServerExit logs
\* it as informational, sets num_clients to 0 and leaves no handler running:
\* the handlers of all other connections are cancelled
C31_ExitEndsEveryConnection ==
    [][\A c \in Clients :
         (clients[c].at = "raised" /\ clients[c].raise = "ServerExit") =>
            /\ clients[c].has_started
            /\ clients[c].writer_closed
            /\ clients'[c].at = "reported" =>
                 /\ num_clients' = 0
                 /\ logged' = << LogEntry("info", "ServerExit", NoId) >>
                 /\ \A b \in Clients : clients'[b].at # "running"
                 /\ \A b \in Clients \ {c} :
                      clients[b].at = "running" => clients'[b].at = "cancelled"]_vars

\* the exit of one connection has been reported while the other one was inside
\* its loop, which is cancelled now
C31_Witness ==
    \E c \in Clients : \E b \in Clients \ {c} :
        /\ clients[c].at = "reported"
        /\ clients[c].raise = "ServerExit"
        /\ clients[c].writer_closed
        /\ clients[b].at = "cancelled"
        /\ num_clients = 0

\* what the requests of connection b read: self.workspace (execute_command),
\* self.hover_langs (provide_hover) and the config and dirty_files handed to
\* the handlers by b's own handle_client
observes(b) ==
    [workspace |-> workspace, hover_langs |-> hover_langs,
     config |-> clients[b].config, dirty_files |-> clients[b].dirty_files]

\* C32: session state is confined to one connection: no message handled on a
\* connection a (an initialize request or a notification) changes the
\* workspace root, the hover formats, the configuration or the dirty files
\* that the requests of another initialized connection b observe
C32_SessionsConfined ==
    [][\A a \in Clients : \A b \in Clients \ {a} :
         ( /\ clients[b].at = "running"
           /\ clients[b].has_started
           /\ \/ \E m \in SessionNotifications : HandleNotification(a, m)
              \/ \E m \in SessionRequests : HandleRequest(a, m) )
         => observes(b)' = observes(b)]_vars

\* C33: when the handler of a yara.CompileAllRules command returns without an
\* error on an initialized connection, it has sent one publishDiagnostics
\* notification for every enumerated document (the dirty documents and, with a
\* workspace, its rule files), all of them before the response, and it leaves
\* the dirty files as they were
C33_OneDiagnosticPerFile ==
    [][( /\ pc = "exec"
         /\ cur.method = "workspace/executeCommand"
         /\ cur.p.cmd = "yara.CompileAllRules"
         /\ started_at
         /\ outcome' = "return"
         /\ returned' = CmdResult({}) )
       => /\ dirty_files' = dirty_files
          /\ own' = Cardinality(documents)
          /\ { sent'[i].uri : i \in 1..own' } = documents
          /\ \A i \in 1..own' : sent'[i].method = "textDocument/publishDiagnostics"
          /\ sent'[Len(sent')] = Response(cur.id, returned')
          /\ Len(sent') = own' + 1]_vars

\* a didSave for a URI has just been handled on an initialized connection
Saved ==
    /\ cur.method = "textDocument/didSave"
    /\ ~cur.hasid
    /\ started_at
    /\ cur.p.uri # ""

ReturnedLocations ==
    IF call.fn = "provide_definition"
    THEN { call.out.v[i] : i \in DOMAIN call.out.v }
    ELSE UNION { { call.outs[f].v[i] : i \in DOMAIN call.outs[f].v } : f \in IncludeDeclaration }

\* the cursor of the call is on a variable ($a, #a, @a, !a, $a*)
OnVariable ==
    /\ resolve_symbol(call.document, call.pos) # << >>
    /\ resolve_symbol(call.document, call.pos)[1] \in Sigils

\* C35: for a variable symbol every Location the references and definition
\* providers return is on a line of the rule scope enclosing the cursor, and
\* its range starts on the character after a sigil of that line, so that no
\* occurrence of a same-named variable in another rule is returned
C35_VariableLocationsInScope ==
    (call.fn \in {"provide_definition", "provide_reference"} /\ call.done /\ OnVariable) =>
        \A loc \in ReturnedLocations :
            LET scope == get_rule_range(call.document, call.pos)
                line == call.document[loc.range.start.line + 1]
            IN  /\ loc.range.start.line >= scope.start.line
                /\ loc.range.start.line <= scope.end.line
                /\ loc.range.end.line = loc.range.start.line
                /\ loc.range.start.char >= 1
                /\ line[loc.range.start.char] \in Sigils
                /\ loc.range.end.char > loc.range.start.char

\* references were returned for a variable that another rule of the document
\* declares too, and none of them is in that other rule
C35_Witness ==
    /\ call.fn = "provide_reference"
    /\ call.done
    /\ OnVariable
    /\ call.outs["true"].v # << >>
    /\ \E i \in DOMAIN call.document :
         /\ call.document[i] = << "$", "a", " ", "=", " ", "x" >>
         /\ i - 1 > get_rule_range(call.document, call.pos).end.line
         /\ resolve_symbol(call.document, call.pos) = << "$", "a" >>

\* C36: a request at a position that resolves to no symbol returns an empty
\* result and raises no error; stated for rename, where provide_reference has
\* returned [] for the same position: the edit set is empty and nothing is
\* raised, whatever the new name
C36_NoSymbolNoResult ==
    ( /\ call.fn = "provide_rename" /\ call.done
      /\ call.old_text = "None"
      /\ call.refs = [kind |-> "return", v |-> << >>] ) =>
        /\ call.out.kind = "return"
        /\ call.out.changes = << >>

\* C37: while the handler of a request is awaited no other message is read:
\* the next step of the connection settles that same request, and when the
\* handler returned or timed out the last message written in that step is the
\* response to it (null after a timeout), with the dirty files the handler
\* was started with still in place; so responses leave in the order the
\* requests were read and a later didChange cannot reach an earlier result
C37_ResponsesInOrder ==
    [][pc = "exec" =>
         /\ cur' = cur
         /\ pc' # "exec"
         /\ outcome' \in {"return", "raise", "timeout"}
         /\ (outcome' \in {"return", "timeout"} /\ cur.method # "shutdown") =>
              /\ sent' # << >>
              /\ sent'[Len(sent')] = Response(cur.id, returned')
              /\ dirty_files' = dirty_files]_vars

\* a feature request read after a didChange has been answered from the dirty
\* text, and one has been answered with null after its handler timed out
C37_Witness ==
    /\ pc = "read"
    /\ cur.method \in FeatureMethods
    /\ outcome = "timeout"
    /\ DOMAIN dirty_files # {}
    /\ sent[Len(sent)] = Response(cur.id, Null)

\* C38: no request receives more than one response: of the messages written
\* since a request was read at most one is a response with its id, a timeout
\* leaves exactly one (the null response), and while a notification or a
\* handler that has not ended is being dealt with no response is written
C38_AtMostOneResponse ==
    /\ (cur.hasid /\ cur.method # "shutdown") => Cardinality(ResponsesTo(cur.id)) <= 1
    /\ (cur.hasid /\ cur.method # "shutdown" /\ outcome = "timeout") =>
          /\ Cardinality(ResponsesTo(cur.id)) = 1
          /\ task = "cancelled"
    /\ \A i \in 1..Len(sent) : sent[i].type = "response" => (cur.hasid /\ sent[i].id = cur.id)

\* a request whose handler wrote a notification and was then timed out has its
\* null response
C38_Witness ==
    /\ cur.hasid
    /\ outcome = "timeout"
    /\ own >= 1
    /\ Cardinality(ResponsesTo(cur.id)) = 1
    /\ sent[Len(sent)] = Response(cur.id, Null)

\* C39: whenever the loop has reported every exception a handler ended with,
\* num_clients is not negative and equals the number of handle_client tasks
\* still inside their loop
C39_CountsRunningHandlers ==
    (\A c \in Clients : clients[c].at # "raised") =>
        /\ num_clients >= 0
        /\ num_clients = Cardinality(Running)

\* the notifications that wait for the handshake
Deferred ==
    { "textDocument/didChange", "textDocument/didClose", "textDocument/didSave",
      "workspace/didChangeConfiguration" }

\* C40: a didChange, didClose, didSave or didChangeConfiguration notification
\* read before the initialized notification leaves the dirty files and the
\* configuration as they were, sends nothing to the client, and leaves the
\* connection waiting for the handshake
C40_IgnoredBeforeInitialized ==
    [][( /\ pc = "read"
         /\ ~has_started
         /\ ~cur'.hasid
         /\ cur'.method \in Deferred )
       => /\ dirty_files' = dirty_files
          /\ config' = config
          /\ sent' = << >>
          /\ has_started' = FALSE
          /\ pc' = "read"]_vars

\* a didChange carrying a text was read between initialize and initialized and
\* left no dirty file
C40_Witness ==
    /\ cur.method = "textDocument/didChange"
    /\ cur.p.uri # "" /\ cur.p.text # ""
    /\ init_seen
    /\ ~started_at
    /\ dirty_files = NoDirtyFiles
    /\ sent = << >>

====
